---- MODULE Spec2Model ----
(***************************************************************************)
(* The job pipeline of the chess analytics backend: the HTTP dispatchers   *)
(* of routers/games.py, the Celery tasks of worker/tasks.py and the        *)
(* progress computation they share, over the tables of models.py.          *)
(*                                                                         *)
(* Granularity.  Every db.commit() is one atomic step.  A handler is split *)
(* where it reads the database and commits later on the strength of that   *)
(* read (dispatch check / insert, cancel lookup / update, coordinator      *)
(* count / update) and where it waits on the engine or the provider.  A    *)
(* commit writes the attributes the session changed since it loaded the    *)
(* row (SQLAlchemy unit of work), so a stale session overwrites only the   *)
(* columns it assigned.                                                    *)
(*                                                                         *)
(* Clock.  The only comparison of timestamps in the code is                *)
(* Game.analyzed_at >= job.started_at (tasks.py:128), so datetime.utcnow() *)
(* is measured in batch starts: batch_analyze_games_task reads the next    *)
(* clock value for started_at, every other reader gets the current one.    *)
(***************************************************************************)
EXTENDS Integers, Sequences, FiniteSets, Bags, TLC

\* ---------------------------------------------------------------- bounds
NumGames == 2          \* games the user has when the pipeline starts
MaxReq == 3            \* HTTP requests issued to the pipeline
Concurrency == 2       \* worker slots of the default queue
MovesPerGame == 2      \* plies of every game's PGN
CancelGames == 3       \* games of the user in the cancel scenarios
CancelReq == 1         \* cancel requests issued in the cancel scenarios
WideGames == 3         \* games of the user in the batch-only scenarios
DispatchReq == 2       \* HTTP requests issued in the dispatch scenarios
NumProviderGames == 3  \* games each provider holds for the user's handle
MaxTotal == 50         \* total_games in the progress arithmetic
MaxCount == 52         \* counts fed to the progress arithmetic
MaxPlies == 2          \* plies of the games given to analyze_game
ReGames == 1           \* games of the user in the re-analysis scenarios
ReReq == 2             \* HTTP requests issued in the re-analysis scenarios
ImportReq == 1         \* import requests issued in the import scenarios
ListIds == 3           \* provider games a fetched list draws from
MaxFetched == 3        \* length of a fetched list
MaxMate == 100         \* distance of the mates given to get_evaluation_cp
BatchGames == 2        \* games of the user in the batch scenarios
BatchReq == 1          \* single-game requests issued in the batch scenarios
UsersReq == 2          \* HTTP requests issued in the two-user scenarios
FairGames == 1         \* games of the user in the scenarios with fair workers
FairReq == 1           \* HTTP requests issued in the scenarios with fair workers
MaxCp == 100           \* size of the centipawn scores given to get_evaluation_cp

\* ------------------------------------------------------------- constants
Null == 0 - 1          \* SQL NULL / Python None in a numeric column
ImportConflict == 409
AnalysisConflict == 429
Accepted == 202
Ok == 200
NoContent == 204
BadRequest == 400
NotFound == 404
ImportsConcurrency == 1

MainUsers == {1}
Users == {1, 2}

\* every status of a job row
EveryStatus == {"pending", "processing", "completed", "failed", "cancelled"}

ActiveStatuses == {"pending", "processing"}
TerminalStatuses == {"completed", "failed", "cancelled"}

Min(a, b) == IF a <= b THEN a ELSE b

\* ------------------------------------------------ IEEE-754 double helpers
RECURSIVE LeadZeros(_, _)
LeadZeros(r, t) == IF 2 * r >= t THEN 0 ELSE 1 + LeadZeros(2 * r, t)

RECURSIVE Pow2(_)
Pow2(n) == IF n = 0 THEN 1 ELSE 2 * Pow2(n - 1)

Limb == Pow2(18)

\* a / t as a double (0 < a < t < 2^13): the 53-bit significand in limbs
\* <<17 bits, 18 bits, 18 bits>> and the position p of its leading bit
\* (value = significand * 2^-(p+52)), rounded half-even
TrueDiv(a, t) ==
    LET z  == LeadZeros(a, t)
        r0 == a * Pow2(z)
        c1 == (r0 * Pow2(17)) \div t
        r1 == (r0 * Pow2(17)) % t
        c2 == (r1 * Limb) \div t
        r2 == (r1 * Limb) % t
        c3 == (r2 * Limb) \div t
        r3 == (r2 * Limb) % t
        rnd == (2 * r3) \div t
        sticky == (2 * r3) % t # 0
        up == rnd = 1 /\ (sticky \/ c3 % 2 = 1)
        d3 == IF up THEN c3 + 1 ELSE c3
        d2 == IF d3 = Limb THEN c2 + 1 ELSE c2
        d1 == IF d2 = Limb THEN c1 + 1 ELSE c1
    IN IF d1 = Pow2(17)
       THEN [c1 |-> Pow2(16), c2 |-> 0, c3 |-> 0, p |-> z]
       ELSE [c1 |-> d1, c2 |-> d2 % Limb, c3 |-> d3 % Limb, p |-> z + 1]

RECURSIVE BitLen(_)
BitLen(v) == IF v = 0 THEN 0 ELSE 1 + BitLen(v \div 2)

\* int(x * k) for a double x as above and an integer 2 <= k < 2^13: the product
\* rounded half-even to 53 bits, then truncated toward zero
MulTrunc(x, k) ==
    LET v3 == k * x.c3
        v2 == k * x.c2 + v3 \div Limb
        v1 == k * x.c1 + v2 \div Limb
        p3 == v3 % Limb
        p2 == v2 % Limb
        s  == BitLen(v1) - 17
        low == p3 % Pow2(s)
        half == Pow2(s - 1)
        up == low > half \/ (low = half /\ (p3 \div Pow2(s)) % 2 = 1)
        q3 == p3 - low + (IF up THEN Pow2(s) ELSE 0)
        q2 == IF q3 = Limb THEN p2 + 1 ELSE p2
        q1 == IF q2 = Limb THEN v1 + 1 ELSE v1
    IN q1 \div Pow2(x.p + 16)

\* int((a / t) * k) as Python computes it, 0 <= a <= t, t > 0
IntOfRatio(a, t, k) ==
    IF a = 0 THEN 0
    ELSE IF a = t THEN k
    ELSE MulTrunc(TrueDiv(a, t), k)

\* ----------------------------------------------------------------- state
VARIABLES
    games,      \* table games: id -> row
    next_id,    \* the id the next inserted games row gets
    moves,      \* table moves: bag of rows [game_id, half_move]
    ajobs,      \* table analysis_jobs: sequence of rows, index = id
    ijobs,      \* table import_jobs: sequence of rows, index = id
    selected,   \* per analysis job: the games batch_analyze_games_task selected
    queue,      \* the default Celery queue ("celery"): sequence of messages
    imports,    \* the Celery queue "imports": sequence of messages
    running,    \* bag of task executions past their first step
    inflight,   \* bag of HTTP requests between their lookup and their commit
    resp,       \* the last HTTP response
    published,  \* events published on the user channels
    now,        \* datetime.utcnow(), in batch starts
    reqs,       \* HTTP requests the clients have yet to issue
    pcount,     \* progress arithmetic: the count the coordinator read
    pjob,       \* progress arithmetic: the job row before and after the update
    an,         \* one call of AnalysisService.analyze_game: its locals and result
    cls,        \* one call of AnalysisService.classify_move: arguments and result
    ev          \* one call of AnalysisService.get_evaluation_cp: argument and result

vars == <<games, next_id, moves, ajobs, ijobs, selected, queue, imports, running,
          inflight, resp, published, now, reqs, pcount, pjob, an, cls, ev>>

importVars == <<ijobs, imports, next_id>>
arithVars == <<pcount, pjob>>
svcVars == <<an, cls, ev>>

\* ------------------------------------------------------------------ rows
NewGame(u, cid, lid) ==
    [user_id |-> u, chess_com_id |-> cid, lichess_id |-> lid,
     analysis_state |-> "unanalyzed", is_analyzed |-> FALSE,
     num_moves |-> Null, accuracy |-> Null, average_centipawn_loss |-> Null,
     num_blunders |-> 0, num_mistakes |-> 0, num_inaccuracies |-> 0,
     analyzed_at |-> Null]

NewAnalysisJob(u) ==
    [user_id |-> u, status |-> "pending", progress |-> 0, total_games |-> 0,
     analyzed_games |-> 0, error_message |-> "", started_at |-> Null,
     completed_at |-> Null]

\* an import job row created as already started
StartedImportJob(u) ==
    [user_id |-> u, status |-> "processing", progress |-> 5, total_games |-> 0,
     imported_games |-> 0, error_message |-> "", started_at |-> Null,
     completed_at |-> Null]

NewImportJob(u) ==
    [user_id |-> u, status |-> "pending", progress |-> 0, total_games |-> 0,
     imported_games |-> 0, error_message |-> "", started_at |-> Null,
     completed_at |-> Null]

NoJob == NewAnalysisJob(0)

NoResp == [op |-> "none", u |-> 0, code |-> 0, job |-> 0]
Resp(op, u, code, job) == [op |-> op, u |-> u, code |-> code, job |-> job]

\* a task message (.delay) and a task execution: name, first argument, user,
\* position, and the locals the execution carries between its commits
Msg(name, a, u) == [name |-> name, a |-> a, u |-> u]
Task(name, a, u, pc) ==
    [name |-> name, a |-> a, u |-> u, pc |-> pc, todo |-> <<>>, ld |-> <<>>,
     nw |-> NoJob, seen |-> {}, pend |-> {}, n |-> 0, idx |-> 0, rows |-> 0,
     skipped |-> FALSE]

Request(op, u, job) == [op |-> op, u |-> u, job |-> job]

Put(bag, e) == bag (+) SetToBag({e})
Take(bag, e) == bag (-) SetToBag({e})

\* the columns a session changed since it loaded the row, applied to the row
Flush(row, loaded, new) ==
    [f \in DOMAIN row |-> IF new[f] # loaded[f] THEN new[f] ELSE row[f]]

\* the user's rows of a job table with status pending or processing
ActiveJobs(table, u) ==
    {j \in 1..Len(table) : table[j].user_id = u /\ table[j].status \in ActiveStatuses}

RECURSIVE SortedSeq(_)
SortedSeq(S) ==
    IF S = {} THEN <<>>
    ELSE LET m == CHOOSE x \in S : \A y \in S : x <= y
         IN <<m>> \o SortedSeq(S \ {m})

\* celery_app.py task_routes; a task the table does not name goes to "celery"
QueueOf(name) == IF name = "import_games_task" THEN "imports" ELSE "celery"

\* a worker of the queue has a free slot
Slots(q) ==
    LET mine == {t \in BagToSet(running) : QueueOf(t.name) = q}
        busy == BagCardinality([t \in mine |-> running[t]])
    IN busy < (IF q = "imports" THEN ImportsConcurrency ELSE Concurrency)

DeleteMoves(g) == [r \in {x \in BagToSet(moves) : x.game_id # g} |-> moves[r]]

\* Python's None and a present value, for the optional floats of the analyzer
None == <<>>
Some(v) == <<v>>

\* no call of analyze_game is under way; no call of classify_move was made
NoCall ==
    [pc |-> "idle", n |-> 0, white_first |-> TRUE, user_color |-> "white",
     engine |-> "none", calls |-> 0, half_move |-> 0, move_number |-> 1,
     moves_analysis |-> <<>>, pov |-> <<>>, total_cp_loss |-> 0,
     num_analyzed_moves |-> 0, blunders |-> 0, mistakes |-> 0, inaccuracies |-> 0,
     result |-> [kind |-> "none"]]

NoClassify == [cp_loss |-> None, eval_before |-> None, eval_after |-> None,
               out |-> "none"]

\* ----------------------------------------------------- AnalysisService
\* The floats of the analyzer are fixed-point numbers: Unit steps to the
\* centipawn.  Engine scores are whole centipawns, so every sum and
\* difference the analyzer forms is exact, and the comparisons of
\* classify_move with x / 100 against 0.5, 1.0, 1.5, 2.0 and 2.5 (all exact
\* doubles) are comparisons of x with 50, 100, 150, 200 and 250 centipawns.
Unit == 10

Abs(x) == IF x < 0 THEN 0 - x ELSE x
Max(a, b) == IF a >= b THEN a ELSE b

\* a classifier by centipawn loss alone, without the position evaluations
ClassifyByLoss(cp_loss, eval_before, eval_after) ==
    IF cp_loss = None THEN "book"
    ELSE LET abs_loss == Abs(cp_loss[1])
         IN IF abs_loss <= 10 * Unit THEN "best"
            ELSE IF abs_loss <= 25 * Unit THEN "excellent"
            ELSE IF abs_loss <= 50 * Unit THEN "good"
            ELSE IF abs_loss < 150 * Unit THEN "inaccuracy"
            ELSE IF abs_loss < 300 * Unit THEN "mistake"
            ELSE "blunder"

\* classify_move; b and a are eval_before_pawns and eval_after_pawns times 100
classify_move(cp_loss, eval_before, eval_after) ==
    IF cp_loss = None THEN "book"
    ELSE
    LET abs_loss == Abs(cp_loss[1])
        b == IF eval_before # None /\ eval_before[1] # 0 THEN eval_before[1] ELSE 0
        a == IF eval_after # None /\ eval_after[1] # 0 THEN eval_after[1] ELSE 0
        both == eval_before # None /\ eval_after # None
    IN IF abs_loss <= 10 * Unit THEN "best"
       ELSE IF abs_loss <= 25 * Unit THEN "excellent"
       ELSE IF abs_loss <= 50 * Unit THEN "good"
       ELSE IF both /\ b > 150 * Unit /\ a < 0 - 150 * Unit THEN "blunder"
       ELSE IF both /\ Abs(b) < 50 * Unit /\ a < 0 - 200 * Unit THEN "blunder"
       ELSE IF both /\ 50 * Unit <= b /\ b <= 150 * Unit /\ a < 0 - 200 * Unit
       THEN "blunder"
       ELSE IF abs_loss >= 300 * Unit THEN "blunder"
       ELSE IF both /\ b > 200 * Unit /\ 0 - 50 * Unit <= a /\ a <= 50 * Unit
       THEN "mistake"
       ELSE IF both /\ b > 250 * Unit /\ 50 * Unit < a /\ a < 150 * Unit
       THEN "mistake"
       ELSE IF 150 * Unit <= abs_loss /\ abs_loss < 300 * Unit THEN "mistake"
       ELSE IF 50 * Unit < abs_loss /\ abs_loss < 150 * Unit
       THEN IF eval_after # None /\ a > 0 - 100 * Unit THEN "inaccuracy"
            ELSE "mistake"
       ELSE "good"

\* what engine.analyse gives for a position: a centipawn score or a mate
\* distance relative to the side to move, no score, or an exception
CpScores == {0 - 200, 0, 80, 200}
MateScores == {0 - 1, 2}
EngineReplies ==
    {[kind |-> "cp", v |-> c] : c \in CpScores}
    \cup {[kind |-> "mate", v |-> m] : m \in MateScores}
    \cup {[kind |-> "noscore", v |-> 0], [kind |-> "raise", v |-> 0]}

\* no call of get_evaluation_cp yet
NoEvaluation == [info |-> [kind |-> "none", v |-> 0], out |-> None]

\* a mate scored as the largest value whatever its distance
MateWithoutDistance(info) ==
    IF info.kind = "noscore" THEN None
    ELSE IF info.kind = "mate"
    THEN IF info.v > 0 THEN Some(10000 * Unit) ELSE Some((0 - 10000) * Unit)
    ELSE Some(info.v * Unit)

\* get_evaluation_cp on the info of a reply that is no exception; v of a mate
\* is score.relative.mate(): n when the side to move mates in n, -n when it
\* is mated in n, 0 when it is checkmated
get_evaluation_cp(info) ==
    IF info.kind = "noscore" THEN None
    ELSE IF info.kind = "mate"
    THEN IF info.v > 0 THEN Some((10000 - info.v * 100) * Unit)
         ELSE Some((0 - 10000 - info.v * 100) * Unit)
    ELSE Some(info.v * Unit)

\* the evaluation a try block around engine.analyse leaves in its variable
Evaluation(reply) == IF reply.kind = "raise" THEN None ELSE get_evaluation_cp(reply)

\* the evaluation kept with its sign
Keep(x) == x

\* -x for an evaluation that is present
Neg(x) == IF x = None THEN None ELSE Some(0 - x[1])

\* every move counted, the opponent's too
AnyMove(is_white_move, is_user_white) == TRUE

\* "Only count user's moves in statistics"
ShouldAnalyze(is_white_move, is_user_white) ==
    (is_white_move /\ is_user_white) \/ (~is_white_move /\ ~is_user_white)

\* the loss added with its sign
SignedLoss(cp_loss) == cp_loss

\* "total_cp_loss += max(0, cp_loss)  # Only count losses"
CountedLoss(cp_loss) == Max(0, cp_loss)

\* a counter that advances with every ply
EveryPly(move_number, is_white_move) == move_number + 1

\* "if not is_white_move: move_number += 1"
NextMoveNumber(move_number, is_white_move) ==
    IF is_white_move THEN move_number ELSE move_number + 1

\* -------------------------------------------------------------- initial
\* n games of user 1 imported from chess.com earlier, nothing analysed; with
\* batch, a POST /games/analyze/all has been answered and its task is queued;
\* the clients go on to issue r requests
StartWith(rows, r, batch) ==
    /\ games = rows
    /\ next_id = Len(rows) + 1
    /\ moves = EmptyBag
    /\ ajobs = IF batch THEN <<NewAnalysisJob(1)>> ELSE <<>>
    /\ ijobs = <<>>
    /\ selected = IF batch THEN <<{}>> ELSE <<>>
    /\ queue = IF batch THEN <<Msg("batch_analyze_games_task", 1, 1)>> ELSE <<>>
    /\ imports = <<>>
    /\ running = EmptyBag
    /\ inflight = EmptyBag
    /\ resp = IF batch THEN Resp("analyze_all", 1, Accepted, 1) ELSE NoResp
    /\ published = {}
    /\ now = 0
    /\ reqs = r
    /\ pcount = 0
    /\ pjob = <<NoJob, NoJob>>
    /\ an = NoCall
    /\ cls = NoClassify
    /\ ev = NoEvaluation

\* the state after construction with n imported games of user 1
Start(n, r, batch) == StartWith([g \in 1..n |-> NewGame(1, g, Null)], r, batch)

Init == Start(NumGames, MaxReq, FALSE)

\* --------------------------- POST /games/import, POST /games/import/lichess
\* op is "import" or "import_lichess"; handle: the request or the profile
\* gives a username for the provider.  The idempotency query and the handle.
ImportCheck(u, op, handle) ==
    /\ reqs > 0
    /\ reqs' = reqs - 1
    /\ IF ActiveJobs(ijobs, u) # {}
       THEN /\ \E j \in ActiveJobs(ijobs, u) : resp' = Resp(op, u, ImportConflict, j)
            /\ UNCHANGED inflight
       ELSE IF ~handle
       THEN /\ resp' = Resp(op, u, BadRequest, 0)
            /\ UNCHANGED inflight
       ELSE /\ inflight' = Put(inflight, Request(op, u, 0))
            /\ UNCHANGED resp
    /\ UNCHANGED <<games, moves, ajobs, selected, queue, running, published, now,
                   importVars, arithVars, svcVars>>

\* "Create import job", commit, .delay, 202 with the job id
ImportCommit(u, op) ==
    /\ BagIn(Request(op, u, 0), inflight)
    /\ op \in {"import", "import_lichess"}
    /\ inflight' = Take(inflight, Request(op, u, 0))
    /\ ijobs' = Append(ijobs, NewImportJob(u))
    /\ LET name == IF op = "import" THEN "import_games_task"
                   ELSE "import_lichess_games_task"
           m == Msg(name, Len(ijobs) + 1, u)
       IN IF QueueOf(name) = "imports"
          THEN imports' = Append(imports, m) /\ UNCHANGED queue
          ELSE queue' = Append(queue, m) /\ UNCHANGED imports
    /\ resp' = Resp(op, u, Accepted, Len(ijobs) + 1)
    /\ UNCHANGED <<games, next_id, moves, ajobs, selected, running, published, now,
                   reqs, arithVars, svcVars>>

\* ------------------------------------------------- POST /games/analyze/all
AnalyzeAllCheck(u) ==
    /\ reqs > 0
    /\ reqs' = reqs - 1
    /\ IF ActiveJobs(ajobs, u) # {}
       THEN /\ \E j \in ActiveJobs(ajobs, u) :
                 resp' = Resp("analyze_all", u, AnalysisConflict, j)
            /\ UNCHANGED inflight
       ELSE /\ inflight' = Put(inflight, Request("analyze_all", u, 0))
            /\ UNCHANGED resp
    /\ UNCHANGED <<games, moves, ajobs, selected, queue, running, published, now,
                   importVars, arithVars, svcVars>>

AnalyzeAllCommit(u) ==
    /\ BagIn(Request("analyze_all", u, 0), inflight)
    /\ inflight' = Take(inflight, Request("analyze_all", u, 0))
    /\ ajobs' = Append(ajobs, NewAnalysisJob(u))
    /\ selected' = Append(selected, {})
    /\ queue' = Append(queue, Msg("batch_analyze_games_task", Len(ajobs) + 1, u))
    /\ resp' = Resp("analyze_all", u, Accepted, Len(ajobs) + 1)
    /\ UNCHANGED <<games, moves, running, published, now, reqs, importVars, arithVars, svcVars>>

\* ------------------------------------------- POST /games/{game_id}/analyze
\* an async handler: lookup, deletion of the old moves, commit and .delay
\* run without yielding
AnalyzeGameRequest(u, g, force) ==
    /\ reqs > 0
    /\ reqs' = reqs - 1
    /\ IF g \notin DOMAIN games \/ games[g].user_id # u
       THEN /\ resp' = Resp("analyze", u, NotFound, 0)
            /\ UNCHANGED <<games, moves, queue>>
       ELSE IF games[g].analysis_state = "analyzed" /\ ~force
       THEN /\ resp' = Resp("analyze", u, Accepted, 0)
            /\ UNCHANGED <<games, moves, queue>>
       ELSE /\ IF force /\ games[g].analysis_state = "analyzed"
               THEN /\ moves' = DeleteMoves(g)
                    /\ games' = [games EXCEPT ![g] =
                                   [@ EXCEPT !.is_analyzed = FALSE,
                                             !.analyzed_at = Null,
                                             !.analysis_state = "in_progress"]]
               ELSE /\ games' = [games EXCEPT ![g].analysis_state = "in_progress"]
                    /\ UNCHANGED moves
            /\ queue' = Append(queue, Msg("analyze_game_task", g, 0))
            /\ resp' = Resp("analyze", u, Accepted, 0)
    /\ UNCHANGED <<ajobs, selected, running, inflight, published, now,
                   importVars, arithVars, svcVars>>

\* ------------------------------------ GET /games/analyze/status/{job_id}
StatusRequest(u, j) ==
    /\ reqs > 0
    /\ reqs' = reqs - 1
    /\ resp' = IF j \notin 1..Len(ajobs) \/ ajobs[j].user_id # u
               THEN Resp("status", u, NotFound, j)
               ELSE Resp("status", u, Ok, j)
    /\ UNCHANGED <<games, moves, ajobs, selected, queue, running, inflight, published,
                   now, importVars, arithVars, svcVars>>

\* --------------------------------------------- POST /games/analyze/cancel
CancelActiveCheck(u) ==
    /\ reqs > 0
    /\ reqs' = reqs - 1
    /\ IF ActiveJobs(ajobs, u) = {}
       THEN /\ resp' = Resp("cancel", u, NotFound, 0)
            /\ UNCHANGED inflight
       ELSE /\ \E j \in ActiveJobs(ajobs, u) :
                 inflight' = Put(inflight, Request("cancel", u, j))
            /\ UNCHANGED resp
    /\ UNCHANGED <<games, moves, ajobs, selected, queue, running, published, now,
                   importVars, arithVars, svcVars>>

\* ------------------------------------ POST /games/analyze/cancel/{job_id}
\* _do_cancel_job up to the status check
CancelByIdCheck(u, j) ==
    /\ reqs > 0
    /\ reqs' = reqs - 1
    /\ IF j \notin 1..Len(ajobs) \/ ajobs[j].user_id # u
       THEN /\ resp' = Resp("cancel", u, NotFound, j)
            /\ UNCHANGED inflight
       ELSE IF ajobs[j].status \notin ActiveStatuses
       THEN /\ resp' = Resp("cancel", u, BadRequest, j)
            /\ UNCHANGED inflight
       ELSE /\ inflight' = Put(inflight, Request("cancel", u, j))
            /\ UNCHANGED resp
    /\ UNCHANGED <<games, moves, ajobs, selected, queue, running, published, now,
                   importVars, arithVars, svcVars>>

\* the reset without its filter on analysis_state: every game of the user
\* goes back to unanalyzed
ResetEveryGame(u) ==
    [g \in DOMAIN games |->
       IF games[g].user_id = u
       THEN [games[g] EXCEPT !.analysis_state = "unanalyzed"]
       ELSE games[g]]

\* the games table after "Reset games stuck in in_progress"
ResetStuck(u) ==
    [g \in DOMAIN games |->
       IF games[g].user_id = u /\ games[g].analysis_state = "in_progress"
       THEN [games[g] EXCEPT !.analysis_state = "unanalyzed"]
       ELSE games[g]]

\* _do_cancel_job from "Mark job as cancelled" to db.commit()
CancelCommit(u, j) ==
    /\ BagIn(Request("cancel", u, j), inflight)
    /\ inflight' = Take(inflight, Request("cancel", u, j))
    /\ ajobs' = [ajobs EXCEPT ![j] =
                   [@ EXCEPT !.status = "cancelled",
                             !.completed_at = now,
                             !.error_message = "Cancelled by user"]]
    /\ games' = ResetStuck(u)
    /\ resp' = Resp("cancel", u, Ok, j)
    /\ UNCHANGED <<moves, selected, queue, running, published, now, reqs,
                   importVars, arithVars, svcVars>>

\* ---------------------------------------------- DELETE /games/{game_id}
DeleteGame(u, g) ==
    /\ reqs > 0
    /\ reqs' = reqs - 1
    /\ IF g \notin DOMAIN games \/ games[g].user_id # u
       THEN /\ resp' = Resp("delete", u, NotFound, 0)
            /\ UNCHANGED <<games, moves>>
       ELSE /\ games' = [x \in DOMAIN games \ {g} |-> games[x]]
            /\ moves' = DeleteMoves(g)
            /\ resp' = Resp("delete", u, NoContent, 0)
    /\ UNCHANGED <<ajobs, selected, queue, running, inflight, published, now,
                   importVars, arithVars, svcVars>>

\* ------------------------------------------------------ analyze_game_task
\* AnalysisService.analyze_game on the game's PGN, success result: one row
\* per ply and the statistics (their shape; the values are the engine's)
AnalyzerMoves(g) == {[game_id |-> g, half_move |-> h] : h \in 0..(MovesPerGame - 1)}
AnalyzerStats(g) ==
    [num_moves |-> MovesPerGame, accuracy |-> 90, average_centipawn_loss |-> 100,
     num_blunders |-> 1, num_mistakes |-> 1, num_inaccuracies |-> 1]

\* the marking without its timestamp
MarkedWithoutTime(row) ==
    [row EXCEPT !.is_analyzed = TRUE, !.analysis_state = "analyzed",
                !.num_moves = 0]

\* "Mark as analyzed with 0 stats so we don't retry"
MarkedAnalyzed(row) ==
    [row EXCEPT !.is_analyzed = TRUE, !.analysis_state = "analyzed",
                !.num_moves = 0, !.analyzed_at = now]

\* the results stored without the state
ResultsWithoutState(row, stats) ==
    [row EXCEPT !.is_analyzed = TRUE,
                !.num_moves = stats.num_moves,
                !.average_centipawn_loss = stats.average_centipawn_loss,
                !.accuracy = stats.accuracy,
                !.num_blunders = stats.num_blunders,
                !.num_mistakes = stats.num_mistakes,
                !.num_inaccuracies = stats.num_inaccuracies,
                !.analyzed_at = now]

\* "6. Update game with analysis results"
WithResults(row, stats) ==
    [row EXCEPT !.is_analyzed = TRUE, !.analysis_state = "analyzed",
                !.num_moves = stats.num_moves,
                !.average_centipawn_loss = stats.average_centipawn_loss,
                !.accuracy = stats.accuracy,
                !.num_blunders = stats.num_blunders,
                !.num_mistakes = stats.num_mistakes,
                !.num_inaccuracies = stats.num_inaccuracies,
                !.analyzed_at = now]

\* an except branch that only returns
ExceptReturn(t) ==
    /\ games' = games
    /\ running' = Take(running, t)

\* the except branch: the game, if it is still there and not analyzed, is
\* marked analyzed; the task returns
ExceptBranch(t) ==
    /\ games' = IF t.a \in DOMAIN games /\ games[t.a].analysis_state # "analyzed"
                THEN [games EXCEPT ![t.a] = MarkedAnalyzed(@)]
                ELSE games
    /\ running' = Take(running, t)

\* steps 1-3 without the return for a missing or analyzed game
AnalyzeLoadUngated ==
    /\ queue # <<>>
    /\ Head(queue).name = "analyze_game_task"
    /\ Slots("celery")
    /\ queue' = Tail(queue)
    /\ running' = Put(running, Task("analyze_game_task", Head(queue).a, 1, "analyzing"))
    /\ UNCHANGED <<games, moves, ajobs, selected, inflight, resp, published, now, reqs,
                   importVars, arithVars, svcVars>>

\* steps 1-3: fetch the game, return if missing or analyzed, ensure in_progress
AnalyzeLoad ==
    /\ queue # <<>>
    /\ Head(queue).name = "analyze_game_task"
    /\ Slots("celery")
    /\ queue' = Tail(queue)
    /\ LET g == Head(queue).a IN
       IF g \notin DOMAIN games \/ games[g].analysis_state = "analyzed"
       THEN UNCHANGED <<games, running>>
       ELSE /\ games' = [games EXCEPT ![g].analysis_state = "in_progress"]
            /\ running' = Put(running, Task("analyze_game_task", g, games[g].user_id,
                                            "analyzing"))
    /\ UNCHANGED <<moves, ajobs, selected, inflight, resp, published, now, reqs,
                   importVars, arithVars, svcVars>>

\* steps 4-7: the analyzer returns a result ("ok"), returns an error ("error")
\* or something raises ("raise"); the task commits
AnalyzeFinish(t, res) ==
    /\ BagIn(t, running)
    /\ t.name = "analyze_game_task" /\ t.pc = "analyzing"
    /\ IF t.a \notin DOMAIN games \/ res = "raise"
       THEN \* an UPDATE of a deleted row matches nothing and raises
            /\ ExceptBranch(t)
            /\ UNCHANGED moves
       ELSE IF res = "error"
       THEN /\ games' = [games EXCEPT ![t.a] = MarkedAnalyzed(@)]
            /\ running' = Take(running, t)
            /\ UNCHANGED moves
       ELSE /\ games' = [games EXCEPT ![t.a] = WithResults(@, AnalyzerStats(t.a))]
            /\ moves' = moves (+) SetToBag(AnalyzerMoves(t.a))
            /\ running' = Put(Take(running, t), [t EXCEPT !.pc = "coord_read"])
    /\ UNCHANGED <<ajobs, selected, queue, inflight, resp, published, now, reqs,
                   importVars, arithVars, svcVars>>

\* the processing jobs of every user
ProcessingJobsOfAnyone(u) ==
    {j \in 1..Len(ajobs) : /\ ajobs[j].status = "processing"
                           /\ ajobs[j].started_at # Null}

\* the query of step 9: the user's jobs with status processing and started_at
ProcessingJobs(u) ==
    {j \in 1..Len(ajobs) : /\ ajobs[j].user_id = u
                           /\ ajobs[j].status = "processing"
                           /\ ajobs[j].started_at # Null}

\* the count query: games of u in state analyzed with analyzed_at >= started
CountAnalyzedSince(u, started) ==
    Cardinality({g \in DOMAIN games : /\ games[g].user_id = u
                                      /\ games[g].analysis_state = "analyzed"
                                      /\ games[g].analyzed_at # Null
                                      /\ games[g].analyzed_at >= started})

\* "Update job progress" on a loaded job row, given the count
CoordUpdate(job, count) ==
    IF job.total_games > 0
    THEN LET ag == Min(count, job.total_games) IN
         IF ag >= job.total_games
         THEN [job EXCEPT !.analyzed_games = ag, !.status = "completed",
                          !.completed_at = now, !.progress = 100]
         ELSE [job EXCEPT !.analyzed_games = ag,
                          !.progress = IntOfRatio(ag, job.total_games, 100)]
    ELSE job

\* the task at the count query of the next job of todo that has total_games > 0
\* (the others are passed over without a commit), or "done" after the loop;
\* a job row is loaded when the loop reaches it
RECURSIVE AtNextJob(_, _, _)
AtNextJob(t, todo, table) ==
    IF todo = <<>>
    THEN [t EXCEPT !.pc = "done", !.todo = <<>>, !.ld = <<>>, !.nw = NoJob]
    ELSE IF table[todo[1]].total_games > 0
    THEN [t EXCEPT !.pc = "coord_write", !.todo = todo, !.ld = <<table[todo[1]]>>,
                   !.nw = CoordUpdate(table[todo[1]],
                                      CountAnalyzedSince(t.u, table[todo[1]].started_at))]
    ELSE AtNextJob(t, Tail(todo), table)

\* a task that does not return before its event is published
ContinueOrRetry(t, nt, pub) ==
    IF nt.pc = "done" /\ pub
    THEN /\ running' = Take(running, t)
         /\ published' = published \cup {[user_id |-> t.u, game_id |-> t.a]}
    ELSE IF nt.pc = "done"
    THEN UNCHANGED <<running, published>>
    ELSE /\ running' = Put(Take(running, t), nt)
         /\ UNCHANGED published

\* the task after a coordinator step: it goes on in the loop, or publishes
\* (redis_pubsub.publish_game_completed; a failure is logged) and returns
Continue(t, nt, pub) ==
    IF nt.pc = "done"
    THEN /\ running' = Take(running, t)
         /\ published' = IF pub THEN published \cup {[user_id |-> t.u, game_id |-> t.a]}
                         ELSE published
    ELSE /\ running' = Put(Take(running, t), nt)
         /\ UNCHANGED published

\* steps 8-9: user stats (ok: they do not raise), the query for the user's
\* processing jobs and the count query of the first of them
AnalyzeCoordRead(t, ok, pub) ==
    /\ BagIn(t, running)
    /\ t.name = "analyze_game_task" /\ t.pc = "coord_read"
    /\ IF t.a \notin DOMAIN games \/ ~ok
       THEN \* refreshing a deleted row raises
            /\ ExceptBranch(t)
            /\ UNCHANGED published
       ELSE /\ Continue(t, AtNextJob(t, SortedSeq(ProcessingJobs(t.u)), ajobs), pub)
            /\ UNCHANGED games
    /\ UNCHANGED <<moves, ajobs, selected, queue, inflight, resp, now, reqs,
                   importVars, arithVars, svcVars>>

\* db.commit() of the job update, then the next job of the loop, or the
\* publish and the return
AnalyzeCoordWrite(t, pub) ==
    /\ BagIn(t, running)
    /\ t.name = "analyze_game_task" /\ t.pc = "coord_write"
    /\ LET after == [ajobs EXCEPT ![t.todo[1]] = Flush(@, t.ld[1], t.nw)]
       IN /\ ajobs' = after
          /\ Continue(t, AtNextJob(t, Tail(t.todo), after), pub)
    /\ UNCHANGED <<games, moves, selected, queue, inflight, resp, now, reqs,
                   importVars, arithVars, svcVars>>

\* ------------------------------------------------ batch_analyze_games_task
\* steps 1-2: fetch the job, mark it processing with started_at, commit
BatchStart ==
    /\ queue # <<>>
    /\ Head(queue).name = "batch_analyze_games_task"
    /\ Slots("celery")
    /\ queue' = Tail(queue)
    /\ ajobs' = [ajobs EXCEPT ![Head(queue).a] =
                   [@ EXCEPT !.status = "processing", !.started_at = now + 1]]
    /\ now' = now + 1
    /\ running' = Put(running, Task("batch_analyze_games_task", Head(queue).a,
                                    Head(queue).u, "select"))
    /\ UNCHANGED <<games, moves, selected, inflight, resp, published, reqs,
                   importVars, arithVars, svcVars>>

\* the user's games no task has been dispatched for
Unstarted(u) ==
    {g \in DOMAIN games : /\ games[g].user_id = u
                          /\ games[g].analysis_state = "unanalyzed"}

\* "3. Get all unanalyzed games for this user"
Unanalyzed(u) ==
    {g \in DOMAIN games : /\ games[g].user_id = u
                          /\ games[g].analysis_state # "analyzed"}

\* step 3: the user's games that are not analyzed; total_games, commit
BatchSelect(t) ==
    /\ BagIn(t, running)
    /\ t.name = "batch_analyze_games_task" /\ t.pc = "select"
    /\ LET sel == Unanalyzed(t.u)
       IN /\ selected' = [selected EXCEPT ![t.a] = sel]
          /\ ajobs' = [ajobs EXCEPT ![t.a].total_games = Cardinality(sel)]
          /\ running' = Put(Take(running, t),
                            [t EXCEPT !.pc = IF sel = {} THEN "empty" ELSE "dispatch",
                                      !.todo = SortedSeq(sel)])
    /\ UNCHANGED <<games, moves, queue, inflight, resp, published, now, reqs,
                   importVars, arithVars, svcVars>>

\* "No games to analyze": the job is completed at once
BatchEmpty(t) ==
    /\ BagIn(t, running)
    /\ t.name = "batch_analyze_games_task" /\ t.pc = "empty"
    /\ ajobs' = [ajobs EXCEPT ![t.a] = [@ EXCEPT !.status = "completed",
                                                 !.completed_at = now,
                                                 !.progress = 100]]
    /\ running' = Take(running, t)
    /\ UNCHANGED <<games, moves, selected, queue, inflight, resp, published, now,
                   reqs, importVars, arithVars, svcVars>>

\* step 4, one iteration: set the game in_progress, commit, .delay
BatchDispatch(t) ==
    /\ BagIn(t, running)
    /\ t.name = "batch_analyze_games_task" /\ t.pc = "dispatch"
    /\ IF t.todo[1] \notin DOMAIN games
       THEN \* the UPDATE matches no row and raises: the except branch
            /\ ajobs' = [ajobs EXCEPT ![t.a] = [@ EXCEPT !.status = "failed",
                                                         !.error_message = "exception",
                                                         !.completed_at = now]]
            /\ running' = Take(running, t)
            /\ UNCHANGED <<games, queue>>
       ELSE /\ games' = [games EXCEPT ![t.todo[1]].analysis_state = "in_progress"]
            /\ queue' = Append(queue, Msg("analyze_game_task", t.todo[1], 0))
            /\ running' = IF Len(t.todo) = 1 THEN Take(running, t)
                          ELSE Put(Take(running, t), [t EXCEPT !.todo = Tail(t.todo)])
            /\ UNCHANGED ajobs
    /\ UNCHANGED <<moves, selected, inflight, resp, published, now, reqs,
                   importVars, arithVars, svcVars>>

\* ------------------------------------------------------- import_games_task
\* the games the provider holds for the handle, by their provider id
ProviderGames == 1..NumProviderGames

\* the except branch: rollback, the job is marked failed, the task returns
ImportFailed(t) ==
    /\ ijobs' = [ijobs EXCEPT ![t.a] = [@ EXCEPT !.status = "failed",
                                                 !.error_message = "exception",
                                                 !.completed_at = now]]
    /\ running' = Take(running, t)

\* steps 1-2: fetch the job, mark it processing, progress 5, commit
ImportStart ==
    /\ imports # <<>>
    /\ Slots("imports")
    /\ imports' = Tail(imports)
    /\ ijobs' = [ijobs EXCEPT ![Head(imports).a] =
                   [@ EXCEPT !.status = "processing", !.started_at = now,
                             !.progress = 5]]
    /\ running' = Put(running, Task("import_games_task", Head(imports).a,
                                    Head(imports).u, "fetch"))
    /\ UNCHANGED <<games, next_id, moves, ajobs, selected, queue, inflight, resp,
                   published, now, reqs, arithVars, svcVars>>

\* step 3 before the provider is called: progress 10, commit
ImportProgress10(t) ==
    /\ BagIn(t, running)
    /\ t.name = "import_games_task" /\ t.pc = "fetch"
    /\ ijobs' = [ijobs EXCEPT ![t.a].progress = 10]
    /\ running' = Put(Take(running, t), [t EXCEPT !.pc = "fetching"])
    /\ UNCHANGED <<games, next_id, moves, ajobs, selected, queue, imports, inflight,
                   resp, published, now, reqs, arithVars, svcVars>>

\* existing_ids left empty
NoExistingIds(u) == {}

\* step 4: the provider ids of the user's games
ExistingIds(u) ==
    {games[g].chess_com_id : g \in {x \in DOMAIN games : games[x].user_id = u}}
    \ {Null}

\* fetch_and_parse_games returns the list of the games of the archives it
\* could read (got, by provider id; all_read: no archive request failed and
\* was passed over), or raises when the list of archives cannot be had (~ok);
\* total_games, progress 30, commit; then step 4
ImportFetched(t, got, ok, all_read) ==
    /\ BagIn(t, running)
    /\ t.name = "import_games_task" /\ t.pc = "fetching"
    /\ IF ~ok
       THEN ImportFailed(t)
       ELSE /\ ijobs' = [ijobs EXCEPT ![t.a] = [@ EXCEPT !.total_games = Len(got),
                                                         !.progress = 30]]
            /\ running' = Put(Take(running, t),
                              [t EXCEPT !.pc = "loop", !.todo = got,
                                        !.seen = ExistingIds(t.u),
                                        !.skipped = ~all_read])
    /\ UNCHANGED <<games, next_id, moves, ajobs, selected, queue, imports, inflight,
                   resp, published, now, reqs, arithVars, svcVars>>

\* the games table after the INSERT of the session's new Game rows, one per
\* provider id of pend (field: the column that holds the provider id)
InsertGames(u, pend, field) ==
    LET sq == SortedSeq(pend)
        row(i) == IF field = "chess_com_id" THEN NewGame(u, sq[i], Null)
                  ELSE NewGame(u, Null, sq[i])
    IN [g \in DOMAIN games \cup (next_id..(next_id + Len(sq) - 1)) |->
          IF g \in DOMAIN games THEN games[g] ELSE row(g - next_id + 1)]

\* the INSERT violates the unique index of the provider id column
Duplicate(pend, field) == \E g \in DOMAIN games : games[g][field] \in pend

\* step 5, one iteration of the loop: a game already seen is skipped, another
\* one is added to the session, and on every tenth index and on the last one
\* the session is committed with imported_games and progress
ImportGame(t) ==
    /\ BagIn(t, running)
    /\ t.name = "import_games_task" /\ t.pc = "loop" /\ t.idx < Len(t.todo)
    /\ LET cid == t.todo[t.idx + 1]
           pend == t.pend \cup {cid}
           nt == [t EXCEPT !.idx = @ + 1]
       IN IF cid \in t.seen
          THEN /\ running' = Put(Take(running, t), nt)
               /\ UNCHANGED <<games, next_id, ijobs>>
          ELSE IF t.idx % 10 = 0 \/ t.idx = Len(t.todo) - 1
          THEN IF Duplicate(pend, "chess_com_id")
               THEN ImportFailed(t) /\ UNCHANGED <<games, next_id>>
               ELSE /\ games' = InsertGames(t.u, pend, "chess_com_id")
                    /\ next_id' = next_id + Cardinality(pend)
                    /\ ijobs' = [ijobs EXCEPT ![t.a] =
                                   [@ EXCEPT !.imported_games = t.n + 1,
                                             !.progress = 30 + IntOfRatio(t.idx,
                                                                 Len(t.todo), 50)]]
                    /\ running' = Put(Take(running, t),
                                      [nt EXCEPT !.n = @ + 1, !.pend = {},
                                                 !.seen = @ \cup {cid},
                                                 !.rows = @ + Cardinality(pend)])
          ELSE /\ running' = Put(Take(running, t),
                                 [nt EXCEPT !.n = @ + 1, !.pend = pend,
                                            !.seen = @ \cup {cid}])
               /\ UNCHANGED <<games, next_id, ijobs>>
    /\ UNCHANGED <<moves, ajobs, selected, queue, imports, inflight, resp, published,
                   now, reqs, arithVars, svcVars>>

\* db.commit() after the loop: the games the session still holds are inserted
ImportFlush(t) ==
    /\ BagIn(t, running)
    /\ t.name = "import_games_task" /\ t.pc = "loop" /\ t.idx = Len(t.todo)
    /\ IF Duplicate(t.pend, "chess_com_id")
       THEN ImportFailed(t) /\ UNCHANGED <<games, next_id>>
       ELSE /\ games' = InsertGames(t.u, t.pend, "chess_com_id")
            /\ next_id' = next_id + Cardinality(t.pend)
            /\ running' = Put(Take(running, t),
                              [t EXCEPT !.pc = "p85", !.pend = {},
                                        !.rows = @ + Cardinality(t.pend)])
            /\ UNCHANGED ijobs
    /\ UNCHANGED <<moves, ajobs, selected, queue, imports, inflight, resp, published,
                   now, reqs, arithVars, svcVars>>

\* imported_games taken from the length of the fetched list
ImportProgress85Fetched(t) ==
    /\ BagIn(t, running)
    /\ t.name = "import_games_task" /\ t.pc = "p85"
    /\ ijobs' = [ijobs EXCEPT ![t.a] = [@ EXCEPT !.imported_games = Len(t.todo),
                                                 !.progress = 85]]
    /\ running' = Put(Take(running, t), [t EXCEPT !.pc = "finish"])
    /\ UNCHANGED <<games, next_id, moves, ajobs, selected, queue, imports, inflight,
                   resp, published, now, reqs, arithVars, svcVars>>

\* imported_games, progress 85, commit
ImportProgress85(t) ==
    /\ BagIn(t, running)
    /\ t.name = "import_games_task" /\ t.pc = "p85"
    /\ ijobs' = [ijobs EXCEPT ![t.a] = [@ EXCEPT !.imported_games = t.n,
                                                 !.progress = 85]]
    /\ running' = Put(Take(running, t), [t EXCEPT !.pc = "finish"])
    /\ UNCHANGED <<games, next_id, moves, ajobs, selected, queue, imports, inflight,
                   resp, published, now, reqs, arithVars, svcVars>>

\* steps 6-8: the user row and the statistics (ok: nothing raises), then the
\* job is completed with progress 100
ImportComplete(t, ok) ==
    /\ BagIn(t, running)
    /\ t.name = "import_games_task" /\ t.pc = "finish"
    /\ IF ok
       THEN /\ ijobs' = [ijobs EXCEPT ![t.a] = [@ EXCEPT !.status = "completed",
                                                         !.progress = 100,
                                                         !.completed_at = now]]
            /\ running' = Take(running, t)
       ELSE ImportFailed(t)
    /\ UNCHANGED <<games, next_id, moves, ajobs, selected, queue, imports, inflight,
                   resp, published, now, reqs, arithVars, svcVars>>

\* ----------------------------------------------- import_lichess_games_task
\* The task is imported by routers/games.py from worker/tasks.py, which does
\* not define it; it is taken from the specification of the import task: the
\* job goes to processing, then to completed with the provider's new games
\* inserted, or to failed.
LichessImportStart ==
    /\ queue # <<>>
    /\ Head(queue).name = "import_lichess_games_task"
    /\ Slots("celery")
    /\ queue' = Tail(queue)
    /\ ijobs' = [ijobs EXCEPT ![Head(queue).a] =
                   [@ EXCEPT !.status = "processing", !.started_at = now]]
    /\ running' = Put(running, Task("import_lichess_games_task", Head(queue).a,
                                    Head(queue).u, "fetching"))
    /\ UNCHANGED <<games, next_id, moves, ajobs, selected, imports, inflight, resp,
                   published, now, reqs, arithVars, svcVars>>

LichessImportFinish(t, got, ok) ==
    /\ BagIn(t, running)
    /\ t.name = "import_lichess_games_task" /\ t.pc = "fetching"
    /\ LET new == got \ {games[g].lichess_id : g \in DOMAIN games}
       IN IF ok
          THEN /\ games' = InsertGames(t.u, new, "lichess_id")
               /\ next_id' = next_id + Cardinality(new)
               /\ ijobs' = [ijobs EXCEPT ![t.a] =
                              [@ EXCEPT !.status = "completed", !.progress = 100,
                                        !.total_games = Cardinality(got),
                                        !.imported_games = Cardinality(new),
                                        !.completed_at = now]]
               /\ running' = Take(running, t)
          ELSE ImportFailed(t) /\ UNCHANGED <<games, next_id>>
    /\ UNCHANGED <<moves, ajobs, selected, queue, imports, inflight, resp, published,
                   now, reqs, arithVars, svcVars>>

\* ------------------------------------------- AnalysisService.analyze_game
pipelineVars == <<games, next_id, moves, ajobs, ijobs, selected, queue, imports,
                  running, inflight, resp, published, now, reqs, pcount, pjob>>

\* "except Exception as e: return {"error": str(e)}" and the parse failure
ErrorResult(call) == [call EXCEPT !.pc = "done", !.result = [kind |-> "error"]]

\* parse_pgn, the locals, popen_uci and the list of all moves; n plies,
\* white_first: the side to move in the game's starting position
AnalyzeGameOpen(n, white_first, user_color, parsed, opened) ==
    /\ an.pc = "idle"
    /\ LET call == [NoCall EXCEPT !.n = n, !.white_first = white_first,
                                  !.user_color = user_color]
       IN an' = IF ~parsed \/ ~opened THEN ErrorResult(call)
                ELSE [call EXCEPT !.pc = "loop", !.engine = "open"]
    /\ UNCHANGED <<pipelineVars, cls, ev>>

\* one iteration of "Now analyze each move": before and after are the
\* engine's replies to the first and the third analyse call (the second one,
\* for the best move, changes none of the fields below)
AnalyzeMove(before, after) ==
    /\ an.pc = "loop" /\ an.half_move < an.n
    /\ LET is_white_move == (an.half_move % 2 = 0) = an.white_first
           is_user_white == an.user_color = "white"
           e_before == Evaluation(before)
           e_after == Evaluation(after)
           both == e_before # None /\ e_after # None
           eval_before == IF both /\ ~is_white_move THEN Neg(e_before) ELSE e_before
           eval_after == IF both /\ ~is_white_move THEN Neg(e_after) ELSE e_after
           cp_loss == IF both THEN Some(eval_before[1] - eval_after[1]) ELSE None
           should_analyze == ShouldAnalyze(is_white_move, is_user_white)
           counted == both /\ should_analyze
           flip == ~is_white_move /\ e_before # None
           \* -eval_after_for_classification with eval_after None: TypeError
           raises == flip /\ e_after = None
           classification ==
               classify_move(cp_loss, IF flip THEN Neg(e_before) ELSE e_before,
                                      IF flip THEN Neg(e_after) ELSE e_after)
           record == [move_number |-> an.move_number,
                      is_white |-> is_white_move,
                      half_move |-> an.half_move,
                      evaluation_before |-> eval_before,
                      evaluation_after |-> Neg(eval_after),
                      classification |-> classification,
                      centipawn_loss |-> cp_loss]
           called == [an EXCEPT !.calls = @ + 3,
                                !.pov = Append(@, <<e_before, e_after>>),
                                !.total_cp_loss =
                                    IF counted THEN @ + CountedLoss(cp_loss[1]) ELSE @,
                                !.num_analyzed_moves = IF counted THEN @ + 1 ELSE @]
       IN an' = IF raises THEN ErrorResult(called)
                ELSE [called EXCEPT
                        !.blunders = IF should_analyze /\ classification = "blunder"
                                     THEN @ + 1 ELSE @,
                        !.mistakes = IF should_analyze /\ classification = "mistake"
                                     THEN @ + 1 ELSE @,
                        !.inaccuracies =
                            IF should_analyze /\ classification = "inaccuracy"
                            THEN @ + 1 ELSE @,
                        !.moves_analysis = Append(@, record),
                        !.move_number = NextMoveNumber(@, is_white_move),
                        !.half_move = @ + 1]
    /\ UNCHANGED <<pipelineVars, cls, ev>>

\* engine.quit(), the overall statistics and the result; the average and the
\* accuracy are exact fractions <<numerator, denominator>>
AnalyzeGameClose ==
    /\ an.pc = "loop" /\ an.half_move = an.n
    /\ LET k == an.num_analyzed_moves
           avg == IF k > 0 THEN Some(<<an.total_cp_loss, k>>) ELSE None
           accuracy == IF k > 0
                       THEN Some(<<Max(0, 1000 * Unit * k - an.total_cp_loss),
                                   10 * Unit * k>>)
                       ELSE None
       IN an' = [an EXCEPT !.pc = "done", !.engine = "closed",
                           !.result = [kind |-> "ok",
                                       moves |-> an.moves_analysis,
                                       stats |-> [num_moves |-> Len(an.moves_analysis),
                                                  average_centipawn_loss |-> avg,
                                                  accuracy |-> accuracy,
                                                  num_blunders |-> an.blunders,
                                                  num_mistakes |-> an.mistakes,
                                                  num_inaccuracies |-> an.inaccuracies]]]
    /\ UNCHANGED <<pipelineVars, cls, ev>>

\* ----------------------------------------- AnalysisService.classify_move
\* one call of classify_move with the given arguments
ClassifyMove(cp_loss, eval_before, eval_after) ==
    /\ cls = NoClassify
    /\ cls' = [cp_loss |-> cp_loss, eval_before |-> eval_before,
               eval_after |-> eval_after,
               out |-> classify_move(cp_loss, eval_before, eval_after)]
    /\ UNCHANGED <<pipelineVars, an, ev>>

\* ------------------------------------- AnalysisService.get_evaluation_cp
\* one call of get_evaluation_cp with the given info
GetEvaluation(info) ==
    /\ ev = NoEvaluation
    /\ ev' = [info |-> info, out |-> get_evaluation_cp(info)]
    /\ UNCHANGED <<pipelineVars, an, cls>>

\* ------------------------------------------------- progress arithmetic
\* one coordinator update of a processing job row, for a count the count
\* query can return
ProgressUpdate(count) ==
    /\ pjob[2].status = "processing"
    /\ pcount' = count
    /\ pjob' = <<pjob[2], CoordUpdate(pjob[2], count)>>
    /\ UNCHANGED <<games, moves, ajobs, selected, queue, running, inflight, resp,
                   published, now, reqs, importVars, svcVars>>

\* ------------------------------------------------------- specifications
\* the steps of analyze_game_task and of batch_analyze_games_task on the
\* workers of the default queue
AnalysisWorkers ==
    \/ AnalyzeLoad
    \/ BatchStart
    \/ \E t \in BagToSet(running), res \in {"ok", "error", "raise"} : AnalyzeFinish(t, res)
    \/ \E t \in BagToSet(running), ok \in BOOLEAN, pub \in BOOLEAN :
          AnalyzeCoordRead(t, ok, pub)
    \/ \E t \in BagToSet(running), pub \in BOOLEAN : AnalyzeCoordWrite(t, pub)
    \/ \E t \in BagToSet(running) : BatchSelect(t)
    \/ \E t \in BagToSet(running) : BatchDispatch(t)

\* the analysis pipeline: batch and single-game analysis, cancel, deletion
Next ==
    \/ AnalysisWorkers
    \/ \E t \in BagToSet(running) : BatchEmpty(t)
    \/ \E u \in MainUsers : AnalyzeAllCheck(u)
    \/ \E u \in MainUsers : AnalyzeAllCommit(u)
    \/ \E u \in MainUsers, g \in DOMAIN games, force \in BOOLEAN :
          AnalyzeGameRequest(u, g, force)
    \/ \E u \in MainUsers : CancelActiveCheck(u)
    \/ \E u \in MainUsers, j \in 1..(Len(ajobs) + 1) : CancelByIdCheck(u, j)
    \/ \E u \in MainUsers, j \in 1..Len(ajobs) : CancelCommit(u, j)
    \/ \E u \in MainUsers, g \in DOMAIN games : DeleteGame(u, g)

Spec == Init /\ [][Next]_vars

\* one batch over WideGames games and no further request
InitWide == Start(WideGames, 0, TRUE)

NextWide == AnalysisWorkers

SpecWide == InitWide /\ [][NextWide]_vars

\* a batch among single-game requests and deletions; the games are new, or
\* they were all marked analyzed by tasks that failed before the batch
FailedEarlier(row) ==
    [row EXCEPT !.is_analyzed = TRUE, !.analysis_state = "analyzed",
                !.num_moves = 0, !.analyzed_at = 0]

InitBatch ==
    \E done \in {{}, 1..BatchGames} :
       StartWith([g \in 1..BatchGames |->
                     IF g \in done THEN FailedEarlier(NewGame(1, g, Null))
                     ELSE NewGame(1, g, Null)], BatchReq, TRUE)

NextBatch ==
    \/ AnalysisWorkers
    \/ \E t \in BagToSet(running) : BatchEmpty(t)
    \/ \E u \in MainUsers, g \in DOMAIN games : AnalyzeGameRequest(u, g, FALSE)
    \/ \E u \in MainUsers, g \in DOMAIN games : DeleteGame(u, g)

SpecBatch == InitBatch /\ [][NextBatch]_vars

\* two users with one game each: the batch of user 1 is queued, and both
\* users issue requests that address their own and the other's games and jobs
InitUsers == StartWith(<<NewGame(1, 1, Null), NewGame(2, 2, Null)>>, UsersReq, TRUE)

NextUsers ==
    \/ AnalysisWorkers
    \/ \E t \in BagToSet(running) : BatchEmpty(t)
    \/ \E u \in Users, g \in DOMAIN games : AnalyzeGameRequest(u, g, FALSE)
    \/ \E u \in Users : CancelActiveCheck(u)
    \/ \E u \in Users, j \in 1..(Len(ajobs) + 1) : CancelByIdCheck(u, j)
    \/ \E u \in Users, j \in 1..Len(ajobs) : CancelCommit(u, j)
    \/ \E u \in Users, g \in DOMAIN games : DeleteGame(u, g)
    \/ \E u \in Users, j \in 1..Len(ajobs) : StatusRequest(u, j)

SpecUsers == InitUsers /\ [][NextUsers]_vars

\* the cancellation of a batch: POST /games/analyze/all has been answered,
\* its task is queued, and the clients go on to issue cancel requests
InitCancel == Start(CancelGames, CancelReq, TRUE)

NextCancel ==
    \/ AnalysisWorkers
    \/ \E u \in MainUsers : CancelActiveCheck(u)
    \/ \E u \in MainUsers, j \in 1..(Len(ajobs) + 1) : CancelByIdCheck(u, j)
    \/ \E u \in MainUsers, j \in 1..Len(ajobs) : CancelCommit(u, j)

SpecCancel == InitCancel /\ [][NextCancel]_vars

\* the dispatchers of imports and of batch analysis for a user who has no
\* games yet, with the tasks they dispatch
InitDispatch == Start(0, DispatchReq, FALSE)

ImportWorkers ==
    \/ ImportStart
    \/ \E t \in BagToSet(running) : ImportProgress10(t)
    \/ \E t \in BagToSet(running), got \in SUBSET ProviderGames, ok \in BOOLEAN :
          ImportFetched(t, SortedSeq(got), ok, TRUE)
    \/ \E t \in BagToSet(running) : ImportGame(t)
    \/ \E t \in BagToSet(running) : ImportFlush(t)
    \/ \E t \in BagToSet(running) : ImportProgress85(t)
    \/ \E t \in BagToSet(running), ok \in BOOLEAN : ImportComplete(t, ok)
    \/ LichessImportStart
    \/ \E t \in BagToSet(running), got \in SUBSET ProviderGames, ok \in BOOLEAN :
          LichessImportFinish(t, got, ok)

NextDispatch ==
    \/ ImportWorkers
    \/ AnalysisWorkers
    \/ \E t \in BagToSet(running) : BatchEmpty(t)
    \/ \E u \in MainUsers, op \in {"import", "import_lichess"}, handle \in BOOLEAN :
          ImportCheck(u, op, handle)
    \/ \E u \in MainUsers, op \in {"import", "import_lichess"} : ImportCommit(u, op)
    \/ \E u \in MainUsers : AnalyzeAllCheck(u)
    \/ \E u \in MainUsers : AnalyzeAllCommit(u)

SpecDispatch == InitDispatch /\ [][NextDispatch]_vars

\* the dispatchers for a user whose providers hold no games: the import
\* tasks fetch an empty list or fail, the batch task finds nothing to analyse
NextDispatchOnly ==
    \/ \E u \in MainUsers, op \in {"import", "import_lichess"}, handle \in BOOLEAN :
          ImportCheck(u, op, handle)
    \/ \E u \in MainUsers, op \in {"import", "import_lichess"} : ImportCommit(u, op)
    \/ \E u \in MainUsers : AnalyzeAllCheck(u)
    \/ \E u \in MainUsers : AnalyzeAllCommit(u)
    \/ ImportStart
    \/ \E t \in BagToSet(running) : ImportProgress10(t)
    \/ \E t \in BagToSet(running), ok \in BOOLEAN : ImportFetched(t, <<>>, ok, TRUE)
    \/ \E t \in BagToSet(running) : ImportFlush(t)
    \/ \E t \in BagToSet(running) : ImportProgress85(t)
    \/ \E t \in BagToSet(running), ok \in BOOLEAN : ImportComplete(t, ok)
    \/ LichessImportStart
    \/ \E t \in BagToSet(running), ok \in BOOLEAN : LichessImportFinish(t, {}, ok)
    \/ BatchStart
    \/ \E t \in BagToSet(running) : BatchSelect(t)
    \/ \E t \in BagToSet(running) : BatchEmpty(t)

SpecDispatchOnly == InitDispatch /\ [][NextDispatchOnly]_vars

\* imports of chess.com games on their own: ImportReq requests of a user
\* who holds all the provider's games but the last one from an earlier
\* import, and the lists the provider can answer with, a game twice in a
\* list included
FetchedLists == UNION {[1..k -> 1..ListIds] : k \in 0..MaxFetched}

InitImport == Start(ListIds - 1, ImportReq, FALSE)

NextImport ==
    \/ \E u \in MainUsers, handle \in BOOLEAN : ImportCheck(u, "import", handle)
    \/ \E u \in MainUsers : ImportCommit(u, "import")
    \/ ImportStart
    \/ \E t \in BagToSet(running) : ImportProgress10(t)
    \/ \E t \in BagToSet(running), got \in FetchedLists, ok \in BOOLEAN,
          all_read \in BOOLEAN : ImportFetched(t, got, ok, all_read)
    \/ \E t \in BagToSet(running) : ImportGame(t)
    \/ \E t \in BagToSet(running) : ImportFlush(t)
    \/ \E t \in BagToSet(running) : ImportProgress85(t)
    \/ \E t \in BagToSet(running), ok \in BOOLEAN : ImportComplete(t, ok)

SpecImport == InitImport /\ [][NextImport]_vars

\* the same imports for user 1 when user 2, an opponent, has imported the
\* provider's game 1 before
InitShared == StartWith(<<NewGame(2, 1, Null)>>, ImportReq, FALSE)

SpecShared == InitShared /\ [][NextImport]_vars

\* the coordinator's arithmetic on its own: a job that batch_analyze_games_task
\* put into processing with total_games in 1..MaxTotal, updated with counts
InitProgress ==
    \E total \in 1..MaxTotal :
       LET job == [NewAnalysisJob(1) EXCEPT !.status = "processing",
                                            !.started_at = 1,
                                            !.total_games = total]
       IN /\ games = << >> /\ next_id = 1 /\ moves = EmptyBag
          /\ ajobs = <<>> /\ ijobs = <<>> /\ selected = <<>>
          /\ queue = <<>> /\ imports = <<>>
          /\ running = EmptyBag /\ inflight = EmptyBag
          /\ resp = NoResp /\ published = {} /\ now = 1 /\ reqs = 0
          /\ pcount = 0
          /\ pjob = <<job, job>>
          /\ an = NoCall /\ cls = NoClassify /\ ev = NoEvaluation

NextProgress == \E count \in 0..MaxCount : ProgressUpdate(count)

SpecProgress == InitProgress /\ [][NextProgress]_vars

\* a batch in flight while the clients request single-game analysis, with
\* and without force, cancel the batch and delete games
InitReanalyze == Start(ReGames, ReReq, TRUE)

NextReanalyze ==
    \/ AnalysisWorkers
    \/ \E u \in MainUsers, g \in DOMAIN games, force \in BOOLEAN :
          AnalyzeGameRequest(u, g, force)
    \/ \E u \in MainUsers : CancelActiveCheck(u)
    \/ \E u \in MainUsers, j \in 1..Len(ajobs) : CancelCommit(u, j)
    \/ \E u \in MainUsers, g \in DOMAIN games : DeleteGame(u, g)

SpecReanalyze == InitReanalyze /\ [][NextReanalyze]_vars

\* the same requests with workers that keep taking and running their tasks
InitFair == Start(FairGames, FairReq, TRUE)

SpecReanalyzeFair == InitFair /\ [][NextReanalyze]_vars /\ WF_vars(AnalysisWorkers)

\* one call of analyze_game on a game of up to MaxPlies plies
NextAnalyzer ==
    \/ \E n \in 0..MaxPlies, white_first \in BOOLEAN, user_color \in {"white", "black"},
          parsed \in BOOLEAN, opened \in BOOLEAN :
          AnalyzeGameOpen(n, white_first, user_color, parsed, opened)
    \/ \E before \in EngineReplies, after \in EngineReplies : AnalyzeMove(before, after)
    \/ AnalyzeGameClose

InitAnalyzer == Start(0, 0, FALSE)

SpecAnalyzer == InitAnalyzer /\ [][NextAnalyzer]_vars

\* calls of classify_move with arguments at, next to and between the
\* thresholds of its rules (in centipawns), and without evaluations
Around(T) == UNION {{c * Unit - 1, c * Unit, c * Unit + 1} : c \in T}
Tenths(T) == {(t * Unit) \div 10 : t \in T}

LossGrid ==
    {Some(v) : v \in Around({0 - 300, 0 - 150, 0 - 50, 10, 25, 50, 150, 300})
                     \cup {5 * Unit, 40 * Unit, 80 * Unit, 200 * Unit, 350 * Unit}}
BeforeGrid ==
    {None} \cup {Some(v) : v \in Around({0 - 50, 50, 150, 200, 250})
                                 \cup Tenths({0, 2, 26})}
AfterGrid ==
    {None} \cup {Some(v) : v \in Around({0 - 200, 0 - 150, 0 - 100, 0 - 50, 50, 150})
                                 \cup Tenths({0 - 35, 8, 10})}

InitClassify == Start(0, 0, FALSE)

NextClassify ==
    \E cp_loss \in LossGrid, eval_before \in BeforeGrid, eval_after \in AfterGrid :
       ClassifyMove(cp_loss, eval_before, eval_after)

SpecClassify == InitClassify /\ [][NextClassify]_vars

\* get_evaluation_cp on its own: mates at every distance up to MaxMate for
\* either side, centipawn scores up to MaxCp either way, and no score
EvaluationInfos ==
    {[kind |-> "mate", v |-> m] : m \in (0 - MaxMate)..MaxMate}
    \cup {[kind |-> "cp", v |-> c] : c \in (0 - MaxCp)..MaxCp}
    \cup {[kind |-> "noscore", v |-> 0]}

InitEvaluation == Start(0, 0, FALSE)

NextEvaluation == \E info \in EvaluationInfos : GetEvaluation(info)

SpecEvaluation == InitEvaluation /\ [][NextEvaluation]_vars

\* ---------------------------------------------------------------- claims
\* the running analyze_game_task executions that are analysing game g
Analysing(g) ==
    {t \in BagToSet(running) :
       t.name = "analyze_game_task" /\ t.pc = "analyzing" /\ t.a = g}

\* nothing is queued, running or in flight
Quiescent ==
    queue = <<>> /\ imports = <<>> /\ running = EmptyBag /\ inflight = EmptyBag

\* C1: each user has at most one ImportJob and at most one AnalysisJob with
\* status pending or processing, also when two dispatch requests of the same
\* kind run their existing-job query before either commits.
C1_OneActiveJobPerKind ==
    \A u \in MainUsers :
       /\ Cardinality(ActiveJobs(ijobs, u)) <= 1
       /\ Cardinality(ActiveJobs(ajobs, u)) <= 1

\* C2: a user who has a job of the same kind in pending or processing and
\* calls an import dispatch or the batch-analyze dispatch is refused with
\* status 409, and the refusal names an existing job of that kind.
C2_RefusedWithConflict ==
    [][\A u \in MainUsers :
          /\ \A op \in {"import", "import_lichess"}, handle \in BOOLEAN :
                (ImportCheck(u, op, handle) /\ ActiveJobs(ijobs, u) # {})
                   => (resp'.code = 409 /\ resp'.job \in ActiveJobs(ijobs, u))
          /\ (AnalyzeAllCheck(u) /\ ActiveJobs(ajobs, u) # {})
                => (resp'.code = 409 /\ resp'.job \in ActiveJobs(ajobs, u))]_vars

\* C3: once an ImportJob or AnalysisJob has status completed, failed or
\* cancelled, no step changes its status.
C3_TerminalIsFinal ==
    [][/\ \A j \in 1..Len(ajobs) :
             ajobs[j].status \in TerminalStatuses => ajobs'[j].status = ajobs[j].status
       /\ \A j \in 1..Len(ijobs) :
             ijobs[j].status \in TerminalStatuses => ijobs'[j].status = ijobs[j].status]_vars

\* C4: while an AnalysisJob is not terminal, no step lowers its progress.
C4_ProgressMonotone ==
    [][\A j \in 1..Len(ajobs) :
          ajobs[j].status \notin TerminalStatuses
             => ajobs'[j].progress >= ajobs[j].progress]_vars

\* C5: after a coordinator update of a job with total_games > 0,
\* analyzed_games = min(count, total_games) and
\* progress = floor(100 * analyzed_games / total_games), within 0..100.
C5_ProgressIsFloor ==
    LET job == pjob[2] IN
    job.total_games > 0 =>
       /\ job.analyzed_games = Min(pcount, job.total_games)
       /\ job.progress = (100 * job.analyzed_games) \div job.total_games
       /\ job.progress \in 0..100

\* C6: the commit of a cancel sets the job to cancelled with completed_at and
\* error_message 'Cancelled by user' and, in the same step, every game of the
\* user that was in_progress to unanalyzed; right after it no game of the
\* user is in_progress, and the user's other games are as they were.
C6_CancelCommitsAtOnce ==
    [][\A u \in MainUsers, j \in 1..Len(ajobs) :
          CancelCommit(u, j) =>
             /\ ajobs'[j].status = "cancelled"
             /\ ajobs'[j].completed_at # Null
             /\ ajobs'[j].error_message = "Cancelled by user"
             /\ \A g \in DOMAIN games :
                   games[g].user_id = u =>
                      /\ games'[g].analysis_state # "in_progress"
                      /\ games[g].analysis_state = "in_progress"
                            => games'[g].analysis_state = "unanalyzed"
                      /\ games[g].analysis_state # "in_progress"
                            => games'[g] = games[g]]_vars

\* C6, its case: a cancel has just committed in the middle of a batch, one
\* game is analyzed and the game a task is analysing is back to unanalyzed
C6_CancelledMidBatch ==
    /\ resp.op = "cancel" /\ resp.code = Ok
    /\ ajobs[resp.job].status = "cancelled"
    /\ \E g \in DOMAIN games : games[g].analysis_state = "analyzed"
    /\ \E g \in DOMAIN games :
          Analysing(g) # {} /\ games[g].analysis_state = "unanalyzed"

\* C7: when a step sets an AnalysisJob to completed, every game that
\* batch_analyze_games_task selected for the job (and that still exists) is
\* in state analyzed.
C7_CompletedCoversBatch ==
    [][\A j \in 1..Len(ajobs) :
          (ajobs[j].status # "completed" /\ ajobs'[j].status = "completed")
             => \A g \in selected'[j] \cap DOMAIN games' :
                   games'[g].analysis_state = "analyzed"]_vars

\* C8: when the task of every selected game has run (every selected game is
\* analyzed, nothing is queued or running) and no cancel was issued, a job
\* with total_games > 0 is not left in processing.
C8_NoJobLeftProcessing ==
    \A j \in 1..Len(ajobs) :
       (/\ Quiescent
        /\ ajobs[j].total_games > 0
        /\ \A g \in selected[j] :
              g \in DOMAIN games /\ games[g].analysis_state = "analyzed")
          => ajobs[j].status # "processing"

\* C9: at any time at most one analyze_game_task execution is analysing a
\* given game.
C9_OneTaskPerGame ==
    \A g \in DOMAIN games :
       BagCardinality([t \in Analysing(g) |-> running[t]]) <= 1

\* C10: the Move rows of a game contain each half_move value at most once.
C10_OneSetOfMoves ==
    \A r \in BagToSet(moves) : moves[r] = 1

\* C11: a Game with analysis_state = analyzed has analyzed_at set, across
\* the success path, the analyzer-error path, the exception path, force
\* re-analysis and cancel.
C11_AnalyzedHasTime ==
    \A g \in DOMAIN games :
       games[g].analysis_state = "analyzed" => games[g].analyzed_at # Null

\* C11, its case: a game that was analysed, then re-analysed with force, and
\* whose second analysis ended on the error or exception path
C11_ReanalysisFailed ==
    \E g \in DOMAIN games :
       /\ games[g].analysis_state = "analyzed"
       /\ games[g].num_moves = 0
       /\ games[g].num_blunders = 1
       /\ games[g].analyzed_at # Null

\* C12: analyze_game_task for a game id that does not exist or for a game
\* already analyzed changes no Game, no Move row and no job, starts no
\* analysis and publishes no event.
C12_SkippedTaskChangesNothing ==
    [][(/\ AnalyzeLoad
        /\ \/ Head(queue).a \notin DOMAIN games
           \/ games[Head(queue).a].analysis_state = "analyzed")
          => UNCHANGED <<games, moves, ajobs, ijobs, selected, running, published>>]_vars

\* C12, its case: a worker is free to take a second task of a game whose
\* analysis is complete with its moves stored
C12_TaskOfAnalyzedGame ==
    /\ queue # <<>>
    /\ Head(queue).name = "analyze_game_task"
    /\ Slots("celery")
    /\ Head(queue).a \in DOMAIN games
    /\ games[Head(queue).a].analysis_state = "analyzed"
    /\ \E r \in BagToSet(moves) : r.game_id = Head(queue).a

\* C13: when the analyzer reports a failure for a game, analyze_game_task
\* leaves the game analyzed with analyzed_at set, num_moves and the blunder,
\* mistake and inaccuracy counts 0, no accuracy of an earlier analysis and no
\* Move rows, and does not enqueue the game again.
C13_FailureLeavesZeroStats ==
    [][\A t \in BagToSet(running) :
          (AnalyzeFinish(t, "error") /\ t.a \in DOMAIN games)
             => /\ games'[t.a].analysis_state = "analyzed"
                /\ games'[t.a].analyzed_at # Null
                /\ games'[t.a].num_moves = 0
                /\ games'[t.a].num_blunders = 0
                /\ games'[t.a].num_mistakes = 0
                /\ games'[t.a].num_inaccuracies = 0
                /\ games'[t.a].accuracy = Null
                /\ \A r \in BagToSet(moves') : r.game_id # t.a
                /\ queue' = queue]_vars

\* analyze_game has returned a result with moves and stats
Returned == an.pc = "done" /\ an.result.kind = "ok"

\* the user's moves of a returned move list with the given classification
UserMoves(tag) ==
    {i \in 1..Len(an.result.moves) :
       /\ an.result.moves[i].is_white = (an.user_color = "white")
       /\ an.result.moves[i].classification = tag}

\* C14: the engine subprocess analyze_game opened is closed when analyze_game
\* returns, on every exit path.
C14_EngineClosedOnReturn ==
    an.pc = "done" => an.engine # "open"

\* C15: for a game of N >= 1 moves analyze_game issues N+1 engine analyse
\* calls when no call fails, and never more than 0.7 * 2N.
C15_EngineCallParity ==
    an.pc = "done" =>
       /\ (Returned /\ an.n >= 1
              /\ \A i \in 1..Len(an.pov) : None \notin {an.pov[i][1], an.pov[i][2]})
             => an.calls = an.n + 1
       /\ 10 * an.calls <= 14 * an.n

\* C16: for every returned move with both evaluations, centipawn_loss is
\* e_i + e_(i+1), the sum of the engine's side-to-move scores of the
\* positions before and after the move.
C16_LossIsSumOfPovScores ==
    Returned =>
       \A i \in 1..Len(an.result.moves) :
          (an.pov[i][1] # None /\ an.pov[i][2] # None)
             => an.result.moves[i].centipawn_loss = Some(an.pov[i][1][1] + an.pov[i][2][1])

\* C17: for every returned move that has evaluation_before, evaluation_after
\* and centipawn_loss, centipawn_loss = evaluation_before - (-evaluation_after)
\* within 0.1 centipawn.
C17_StoredLossIdentity ==
    Returned =>
       \A i \in 1..Len(an.result.moves) :
          LET m == an.result.moves[i] IN
          (m.evaluation_before # None /\ m.evaluation_after # None
             /\ m.centipawn_loss # None)
             => 10 * Abs(m.centipawn_loss[1]
                         - (m.evaluation_before[1] - (0 - m.evaluation_after[1]))) <= Unit

\* C17, its case: a returned black move with a positive centipawn_loss and
\* both evaluations stored
C17_BlackMoveWithLoss ==
    /\ Returned
    /\ \E i \in 1..Len(an.result.moves) :
          LET m == an.result.moves[i] IN
          /\ ~m.is_white
          /\ m.evaluation_before # None /\ m.evaluation_after # None
          /\ m.centipawn_loss # None /\ m.centipawn_loss[1] > 0

\* C18: every returned move stores evaluation_before = e_i and
\* evaluation_after = -e_(i+1), for black moves as for white moves, and is
\* classified from these two values.
C18_StoredFromMoversView ==
    Returned =>
       \A i \in 1..Len(an.result.moves) :
          LET m == an.result.moves[i] IN
          /\ m.evaluation_before = an.pov[i][1]
          /\ m.evaluation_after = Neg(an.pov[i][2])
          /\ m.classification =
                classify_move(m.centipawn_loss, an.pov[i][1], Neg(an.pov[i][2]))

\* the tag of the first rule of an ordered list <<condition, tag>> that matches
RECURSIVE FirstMatch(_)
FirstMatch(rules) ==
    IF rules = <<>> THEN "good"
    ELSE IF rules[1][1] THEN rules[1][2]
    ELSE FirstMatch(Tail(rules))

\* C19: with both evaluations present classify_move returns the tag of the
\* first matching rule of the ordered list (b, a: the evaluations in pawns;
\* x pawns are 100 * x centipawns), and classify(5) = best, classify(40) =
\* good, classify(80, 0.2, 1.0) = inaccuracy, classify(200, 2.6, 0.8) =
\* mistake, classify(350, 0.0, -3.5) = blunder.
C19_FirstMatchingRule ==
    cls.out # "none" =>
       LET c == Abs(cls.cp_loss[1])
           b == cls.eval_before[1]
           a == cls.eval_after[1]
           P == 100 * Unit
           Is(l, x, y) == cls.cp_loss = Some((l * Unit))
                          /\ cls.eval_before = x /\ cls.eval_after = y
           T(t) == Some((t * Unit) \div 10)
       IN /\ (cls.eval_before # None /\ cls.eval_after # None) =>
                cls.out = FirstMatch(<<
                   <<c <= 10 * Unit, "best">>,
                   <<c <= 25 * Unit, "excellent">>,
                   <<c <= 50 * Unit, "good">>,
                   <<\/ (2 * b > 3 * P /\ 2 * a < 0 - 3 * P)
                     \/ (2 * Abs(b) < P /\ a < 0 - 2 * P)
                     \/ (P <= 2 * b /\ 2 * b <= 3 * P /\ a < 0 - 2 * P), "blunder">>,
                   <<c >= 300 * Unit, "blunder">>,
                   <<\/ (b > 2 * P /\ 0 - P <= 2 * a /\ 2 * a <= P)
                     \/ (2 * b > 5 * P /\ P < 2 * a /\ 2 * a < 3 * P), "mistake">>,
                   <<150 * Unit <= c /\ c < 300 * Unit, "mistake">>,
                   <<50 * Unit < c /\ c < 150 * Unit /\ a > 0 - P, "inaccuracy">>,
                   <<50 * Unit < c /\ c < 150 * Unit, "mistake">> >>)
          /\ Is(5, None, None) => cls.out = "best"
          /\ Is(40, None, None) => cls.out = "good"
          /\ Is(80, T(2), T(10)) => cls.out = "inaccuracy"
          /\ Is(200, T(26), T(8)) => cls.out = "mistake"
          /\ Is(350, T(0), T(0 - 35)) => cls.out = "blunder"

\* C19, its case: a call that the evaluations, not the loss, make a mistake:
\* a loss between 50 and 150 centipawns from better than +2.0 to within 0.5
C19_MistakeByEvaluation ==
    /\ cls.out = "mistake"
    /\ cls.eval_before # None /\ cls.eval_after # None
    /\ Abs(cls.cp_loss[1]) = 80 * Unit
    /\ cls.eval_before[1] > 200 * Unit
    /\ Abs(cls.eval_after[1]) <= 50 * Unit

\* C20: in every result, num_blunders, num_mistakes and num_inaccuracies are
\* the numbers of returned moves by user_color classified blunder, mistake
\* and inaccuracy, and num_moves is the length of the move list.
C20_StatsCountUserMoves ==
    Returned =>
       /\ an.result.stats.num_blunders = Cardinality(UserMoves("blunder"))
       /\ an.result.stats.num_mistakes = Cardinality(UserMoves("mistake"))
       /\ an.result.stats.num_inaccuracies = Cardinality(UserMoves("inaccuracy"))
       /\ an.result.stats.num_moves = Len(an.result.moves)

\* C20, its case: a result in which the user and the opponent each made a
\* blunder
C20_BothSidesBlundered ==
    /\ Returned
    /\ UserMoves("blunder") # {}
    /\ \E i \in 1..Len(an.result.moves) :
          /\ an.result.moves[i].classification = "blunder"
          /\ i \notin UserMoves("blunder")

\* C21: the returned move list has half_move 0..N-1 in order, is_white =
\* (half_move is even) and move_number = floor(half_move / 2) + 1 in every
\* record, whichever side is to move in the starting position.
C21_NumberingFromWhite ==
    Returned =>
       \A i \in 1..Len(an.result.moves) :
          LET m == an.result.moves[i]
          IN /\ m.half_move = i - 1
             /\ m.is_white = (m.half_move % 2 = 0)
             /\ m.move_number = (m.half_move \div 2) + 1

\* C21, amended: half_move is 0..N-1 in order; is_white is the side that made
\* the move, so it is (half_move is even) exactly when White moves first; and
\* move_number grows after every move of Black, so it is
\* floor(half_move / 2) + 1 when White moves first and
\* floor((half_move + 1) / 2) + 1 when Black does.
C21_NumberingFromSideToMove ==
    Returned =>
       \A i \in 1..Len(an.result.moves) :
          LET m == an.result.moves[i]
              shift == IF an.white_first THEN 0 ELSE 1
          IN /\ m.half_move = i - 1
             /\ m.is_white = ((m.half_move % 2 = 0) = an.white_first)
             /\ m.move_number = ((m.half_move + shift) \div 2) + 1

\* C21, its case: a returned list of two moves of a game Black starts
C21_BlackMovedFirst ==
    Returned /\ ~an.white_first /\ Len(an.result.moves) >= 2

\* the execution of import_games_task has fetched only games the user already
\* holds and has added none
Redundant(t) ==
    /\ t.name = "import_games_task" /\ t.pc \in {"loop", "p85"}
    /\ t.n = 0
    /\ \A i \in 1..Len(t.todo) :
          \E g \in DOMAIN games : /\ games[g].user_id = t.u
                                  /\ games[g].chess_com_id = t.todo[i]

\* C22: an execution of import_games_task over games the user already holds
\* inserts no Game row and no Move row and reports imported_games 0; and at
\* all times no two Games of one user share a non-null provider game id,
\* also when the fetched list contains an id twice.
C22_ImportIsIdempotent ==
    [][/\ \A g, h \in DOMAIN games' :
            (/\ g # h
             /\ games'[g].user_id = games'[h].user_id
             /\ games'[g].chess_com_id # Null)
            => games'[g].chess_com_id # games'[h].chess_com_id
       /\ \A t \in BagToSet(running) :
            (Redundant(t) /\ running' # running) =>
               /\ games' = games /\ moves' = moves
               /\ ijobs'[t.a].status = "processing"
               /\ ijobs'[t.a].imported_games = 0
               /\ \E nt \in BagToSet(running') : nt.a = t.a /\ nt.n = 0]_vars

\* C22, its case: an import whose list named a game the user holds twice, and
\* nothing else, has completed with imported_games 0
C22_SecondImportDone ==
    \E j \in 1..Len(ijobs) :
       /\ ijobs[j].status = "completed"
       /\ ijobs[j].total_games >= 2 /\ ijobs[j].imported_games = 0

\* C23: import tasks are routed only to the imports queue and analysis tasks
\* only to the default queue; at most one import_games_task executes at a
\* time and at most one ImportJob in the whole system is processing.
C23_ImportsSerialised ==
    /\ \A i \in 1..Len(imports) :
          imports[i].name \in {"import_games_task", "import_lichess_games_task"}
    /\ \A i \in 1..Len(queue) :
          queue[i].name \in {"analyze_game_task", "batch_analyze_games_task"}
    /\ \A t \in BagToSet(running) :
          t.name = "import_games_task" => running[t] = 1
    /\ Cardinality({t \in BagToSet(running) : t.name = "import_games_task"}) <= 1
    /\ Cardinality({j \in 1..Len(ijobs) : ijobs[j].status = "processing"}) <= 1

\* the last coordinator step of an execution of analyze_game_task, the one
\* that ends with the publish and the return
LastStep(t) ==
    /\ t.name = "analyze_game_task" /\ t.a \in DOMAIN games
    /\ \/ /\ t.pc = "coord_read"
          /\ AtNextJob(t, SortedSeq(ProcessingJobs(t.u)), ajobs).pc = "done"
       \/ /\ t.pc = "coord_write"
          /\ AtNextJob(t, Tail(t.todo), ajobs').pc = "done"

\* C24: a failure to publish the completion event never changes the outcome
\* of analyze_game_task: the game and its Move rows stay as they are, the
\* job progress update is committed and the task returns.
C24_PublishFailureIsHarmless ==
    [][\A t \in BagToSet(running) :
         (/\ LastStep(t)
          /\ AnalyzeCoordRead(t, TRUE, FALSE) \/ AnalyzeCoordWrite(t, FALSE))
         => /\ games' = games /\ moves' = moves
            /\ t.pc = "coord_write" =>
                  ajobs'[t.todo[1]] = Flush(ajobs[t.todo[1]], t.ld[1], t.nw)
            /\ t.pc = "coord_read" => ajobs' = ajobs
            /\ running' = Take(running, t)
            /\ published' = published]_vars

\* C24, its case: a game is analyzed with its Move rows and counted in the
\* progress of the batch job, its task has returned, and no event for it was
\* published
C24_AnalyzedUnannounced ==
    \E g \in DOMAIN games :
       /\ games[g].analysis_state = "analyzed"
       /\ \E r \in BagToSet(moves) : r.game_id = g
       /\ [user_id |-> games[g].user_id, game_id |-> g] \notin published
       /\ \A t \in BagToSet(running) : t.a # g \/ t.name # "analyze_game_task"
       /\ \A i \in 1..Len(queue) : queue[i].name # "analyze_game_task"
       /\ \E j \in 1..Len(ajobs) : ajobs[j].analyzed_games >= 1

C26_PartialFetchFailsJob ==
    [][\A t \in BagToSet(running) :
         (/\ t.name = "import_games_task" /\ t.skipped
          /\ running' = Take(running, t))
         => ijobs'[t.a].status = "failed"]_vars

\* game g was reset by a forced single-analyze request and the task of that
\* request is still queued, with no execution analysing the game
AwaitingReanalysis(g) ==
    /\ g \in DOMAIN games
    /\ games[g].analysis_state = "in_progress"
    /\ games[g].analyzed_at = Null /\ ~games[g].is_analyzed
    /\ games[g].num_moves # Null
    /\ Analysing(g) = {}
    /\ \E i \in 1..Len(queue) : queue[i] = Msg("analyze_game_task", g, 0)

\* C27: a single-analyze request with force for an analyzed game deletes the
\* game's Move rows and sets it in_progress with analyzed_at cleared before
\* its task is enqueued, and the worker handling that task never finds the
\* game analyzed: nothing marks the game analyzed while the task waits;
\* without force the request changes nothing and enqueues nothing.
C27_ForcedReanalysisRuns ==
    [][\A g \in DOMAIN games :
         /\ (/\ games[g].analysis_state = "analyzed"
             /\ \E u \in MainUsers : AnalyzeGameRequest(u, g, TRUE))
            => /\ \A r \in BagToSet(moves') : r.game_id # g
               /\ games'[g].analysis_state = "in_progress"
               /\ games'[g].analyzed_at = Null
               /\ queue' = Append(queue, Msg("analyze_game_task", g, 0))
         /\ (/\ games[g].analysis_state = "analyzed"
             /\ \E u \in MainUsers : AnalyzeGameRequest(u, g, FALSE))
            => /\ games' = games /\ moves' = moves /\ queue' = queue
         /\ AwaitingReanalysis(g)
            => (g \in DOMAIN games' => games'[g].analysis_state # "analyzed")]_vars

\* the moves of the returned list made by user_color, and those of them that
\* have a centipawn loss
MovesByUser ==
    {i \in 1..Len(an.result.moves) :
       an.result.moves[i].is_white = (an.user_color = "white")}
LossesByUser == {i \in MovesByUser : an.result.moves[i].centipawn_loss # None}

\* the sum of max(0, cpl) over the moves of S
RECURSIVE SumOfLosses(_)
SumOfLosses(S) ==
    IF S = {} THEN 0
    ELSE LET i == CHOOSE x \in S : TRUE
         IN Max(0, an.result.moves[i].centipawn_loss[1]) + SumOfLosses(S \ {i})

\* the statistics are the average of the sum over k moves, in centipawns,
\* and the accuracy 100 - average / 10 clamped to 0..100
AverageOver(sum, k) ==
    LET avg == an.result.stats.average_centipawn_loss
        acc == an.result.stats.accuracy
    IN /\ avg # None /\ acc # None
       /\ avg[1][1] * k = sum * avg[1][2]
       /\ acc[1][1] * (10 * Unit * k) = Max(0, 1000 * Unit * k - sum) * acc[1][2]
       /\ acc[1][1] >= 0 /\ acc[1][1] <= 100 * acc[1][2]

\* C28: in every result with at least one move by user_color,
\* average_centipawn_loss is the sum of max(0, cpl) over the moves by
\* user_color divided by the number of moves by user_color, and accuracy is
\* 100 - average_centipawn_loss / 10 clamped to 0..100.
C28_AverageOverUserMoves ==
    (Returned /\ MovesByUser # {}) =>
       AverageOver(SumOfLosses(LossesByUser), Cardinality(MovesByUser))

\* C28, amended: the average is taken over the moves by user_color that have
\* a centipawn loss (both evaluations present): with at least one such move
\* it is the sum of max(0, cpl) over them divided by their number, and
\* accuracy is 100 - average / 10 clamped to 0..100; with none, both are
\* None.
C28_AverageOverEvaluatedMoves ==
    Returned =>
       IF LossesByUser # {}
       THEN AverageOver(SumOfLosses(LossesByUser), Cardinality(LossesByUser))
       ELSE /\ an.result.stats.average_centipawn_loss = None
            /\ an.result.stats.accuracy = None

\* C28, its case: user_color made a move that improved the evaluation and
\* the opponent one that lost more than a pawn
C28_ImprovedAndLost ==
    /\ Returned
    /\ \E i \in LossesByUser : an.result.moves[i].centipawn_loss[1] < 0
    /\ \E i \in 1..Len(an.result.moves) :
          /\ i \notin MovesByUser
          /\ an.result.moves[i].centipawn_loss # None
          /\ an.result.moves[i].centipawn_loss[1] > 100 * Unit

\* C29: get_evaluation_cp folds a mate in N into +(10000 - 100 N) centipawns
\* when the side to move mates and -(10000 - 100 N) when it is being mated,
\* so the fold is antisymmetric in the sign of N, every evaluation of a mate
\* with N in 0..100 is below 50000 in size, and a centipawn score is
\* returned unchanged.
C29_MateFold ==
    LET N == Abs(ev.info.v)
        mirrored == [ev.info EXCEPT !.v = 0 - ev.info.v]
    IN /\ (ev.info.kind = "mate" /\ ev.info.v > 0) =>
             ev.out = Some((10000 - 100 * N) * Unit)
       /\ (ev.info.kind = "mate" /\ ev.info.v <= 0) =>
             ev.out = Some((0 - (10000 - 100 * N)) * Unit)
       /\ (ev.info.kind = "mate" /\ N >= 1) =>
             get_evaluation_cp(mirrored) = Neg(ev.out)
       /\ (ev.info.kind = "mate" /\ N <= 100) =>
             (ev.out # None /\ Abs(ev.out[1]) < 50000 * Unit)
       /\ ev.info.kind = "cp" => ev.out = Some(ev.info.v * Unit)

\* C29, its case: the evaluation of a position in which the side to move is
\* mated in three
C29_MatedInThree ==
    /\ ev.info = [kind |-> "mate", v |-> 0 - 3]
    /\ ev.out = Some((0 - 9700) * Unit)

\* the step appends exactly the message m to one of the two queues
Enqueues(m) ==
    \/ imports' = Append(imports, m) /\ queue' = queue
    \/ queue' = Append(queue, m) /\ imports' = imports

\* C30: a dispatch request that is refused leaves the ImportJob and
\* AnalysisJob tables unchanged and enqueues no task; an accepted request
\* commits exactly one job row with status pending and progress 0 and
\* enqueues exactly one task carrying that job's id, and no dispatch task is
\* enqueued without its row.
C30_DispatchAllOrNothing ==
    [][/\ (reqs' = reqs - 1 /\ inflight' = inflight) =>
            /\ resp'.code \in {ImportConflict, AnalysisConflict, BadRequest}
            /\ ijobs' = ijobs /\ ajobs' = ajobs
            /\ queue' = queue /\ imports' = imports
       /\ Len(ijobs') # Len(ijobs) =>
            /\ Len(ijobs') = Len(ijobs) + 1
            /\ SubSeq(ijobs', 1, Len(ijobs)) = ijobs
            /\ ijobs'[Len(ijobs')].status = "pending"
            /\ ijobs'[Len(ijobs')].progress = 0
            /\ ajobs' = ajobs
            /\ \E name \in {"import_games_task", "import_lichess_games_task"} :
                  Enqueues(Msg(name, Len(ijobs'), ijobs'[Len(ijobs')].user_id))
            /\ resp'.code = Accepted /\ resp'.job = Len(ijobs')
       /\ Len(ajobs') # Len(ajobs) =>
            /\ Len(ajobs') = Len(ajobs) + 1
            /\ SubSeq(ajobs', 1, Len(ajobs)) = ajobs
            /\ ajobs'[Len(ajobs')].status = "pending"
            /\ ajobs'[Len(ajobs')].progress = 0
            /\ ijobs' = ijobs
            /\ Enqueues(Msg("batch_analyze_games_task", Len(ajobs'),
                            ajobs'[Len(ajobs')].user_id))
            /\ resp'.code = Accepted /\ resp'.job = Len(ajobs')
       /\ (\/ Len(imports') > Len(imports)
           \/ /\ Len(queue') > Len(queue)
              /\ queue'[Len(queue')].name # "analyze_game_task")
          => (Len(ijobs') # Len(ijobs) \/ Len(ajobs') # Len(ajobs))]_vars

\* C30, its case: an import was accepted as job 1 with its task queued, and
\* the next dispatch request of the user was refused naming job 1
C30_RefusedAfterAccepted ==
    /\ Len(ijobs) = 1 /\ ijobs[1].status = "pending"
    /\ Len(imports) = 1 /\ imports[1].a = 1
    /\ resp.code = ImportConflict /\ resp.job = 1

\* a task for game g is queued or analysing it
Pending(g) ==
    \/ Analysing(g) # {}
    \/ \E i \in 1..Len(queue) : queue[i] = Msg("analyze_game_task", g, 0)

\* the step in which the execution t of analyze_game_task returns, its game
\* still being there
Returns(t) ==
    /\ t.name = "analyze_game_task"
    /\ running' = Take(running, t)
    /\ t.a \in DOMAIN games'

Publishes(t) ==
    /\ [user_id |-> t.u, game_id |-> t.a] \in published' \ published
    /\ running' = Take(running, t)

\* the jobs a subscriber reads for game g: jobs of the owner that were started
\* before g was analyzed and hold games
JobsOver(g) ==
    {j \in 1..Len(ajobs) : /\ ajobs[j].user_id = games[g].user_id
                           /\ ajobs[j].status \in {"processing", "completed"}
                           /\ ajobs[j].total_games > 0
                           /\ ajobs[j].started_at # Null
                           /\ games[g].analyzed_at # Null
                           /\ games[g].analyzed_at >= ajobs[j].started_at}

\* an event is published by an execution that has committed the results and
\* has no coordinator update left
PublishedAfterCommits ==
    \A e \in published' \ published :
       \E t \in BagToSet(running) :
          /\ t.name = "analyze_game_task" /\ t.a = e.game_id /\ t.u = e.user_id
          /\ t.pc \in {"coord_read", "coord_write"}
          /\ Publishes(t)

\* C32 (as stated): an event for game g is published only after the commit of
\* g's results and the commit of the coordinator's job update, and at that
\* moment g is stored in state analyzed and the owner's job counts g; no
\* event is published by a task that skipped the game or ended on an error path.
C32_SubscriberSeesAnalyzed ==
    [][/\ PublishedAfterCommits
       /\ \A e \in published' \ published :
             /\ e.game_id \in DOMAIN games'
             /\ games'[e.game_id].analysis_state = "analyzed"
             /\ \A j \in JobsOver(e.game_id)' : ajobs'[j].analyzed_games >= 1]_vars

\* C32 (amended): an event for game g is published only by an execution that
\* committed g's results in state analyzed and whose coordinator updates are
\* all committed; when it is published g is analyzed, or g has since been
\* deleted or handed to a newer analyze_game_task; tasks that skip the game or
\* fail publish nothing.
C32_PublishedAfterCommits ==
    [][/\ PublishedAfterCommits
       /\ \A e \in published' \ published :
             \/ e.game_id \notin DOMAIN games'
             \/ Pending(e.game_id)'
             \/ games'[e.game_id].analysis_state = "analyzed"]_vars

\* witness: the event of a game of a batch has been published, the game is
\* analyzed and the job that counts it is completed
C32_EventAfterJobUpdate ==
    \E e \in published :
       /\ e.game_id \in DOMAIN games
       /\ games[e.game_id].analysis_state = "analyzed"
       /\ JobsOver(e.game_id) # {}
       /\ \A j \in JobsOver(e.game_id) : ajobs[j].status = "completed"

\* ---------------------------------------------------------------- C33
BatchTasks == {t \in BagToSet(running) : t.name = "batch_analyze_games_task"}

\* the execution t takes a step
Steps(t) == CopiesIn(t, running') < CopiesIn(t, running)

\* the user's games whose stored state is not analyzed
NotAnalyzed(u) ==
    {g \in DOMAIN games : games[g].user_id = u /\ games[g].analysis_state # "analyzed"}

RefusedCancel ==
    /\ reqs' = reqs - 1
    /\ inflight' = inflight
    /\ resp'.op = "cancel"

\* a cancel request passes the checks in this step
AcceptedCancel(u, j) ==
    /\ reqs' = reqs - 1
    /\ inflight' = Put(inflight, Request("cancel", u, j))

\* C34: a cancel request that is refused changes no job and no game (and
\* resets no in_progress game): it is answered 400 exactly for a job of the
\* caller that is completed, failed or cancelled, and 404 for a job id that
\* does not exist or belongs to another user, or, on the id-less endpoint,
\* when the caller has no pending or processing job; a request passes the
\* checks only for a pending or processing job of the caller.
C34_RefusedCancelChangesNothing ==
    [][/\ RefusedCancel =>
            /\ games' = games /\ ajobs' = ajobs /\ moves' = moves /\ queue' = queue
            /\ resp'.code \in {BadRequest, NotFound}
            /\ resp'.code = BadRequest =>
                  /\ resp'.job \in 1..Len(ajobs)
                  /\ ajobs[resp'.job].user_id = resp'.u
                  /\ ajobs[resp'.job].status \in {"completed", "failed", "cancelled"}
            /\ resp'.code = NotFound =>
                  IF resp'.job = 0
                  THEN \A j \in 1..Len(ajobs) :
                          ajobs[j].user_id = resp'.u =>
                             ajobs[j].status \notin {"pending", "processing"}
                  ELSE \/ resp'.job \notin 1..Len(ajobs)
                       \/ ajobs[resp'.job].user_id # resp'.u
       /\ \A u \in Users, j \in 1..(Len(ajobs) + 1) :
             AcceptedCancel(u, j) =>
                /\ j \in 1..Len(ajobs)
                /\ ajobs[j].user_id = u
                /\ ajobs[j].status \in {"pending", "processing"}]_vars

\* witness: user 2 was answered 404 for the job of user 1 while that job is
\* processing and a game is in_progress
C34_ForeignCancelRefused ==
    /\ resp = Resp("cancel", 2, NotFound, 1)
    /\ ajobs[1].status = "processing"
    /\ \E g \in DOMAIN games : games[g].analysis_state = "in_progress"

\* ---------------------------------------------------------------- C35
\* C35: after an analysis job is cancelled its analyzed_games, progress,
\* status and completed_at are never modified again, also by the coordinator
\* step of a task that had read the job as processing before the cancel.
C35_CancelledJobIsFrozen ==
    [][\A j \in 1..Len(ajobs) :
          ajobs[j].status = "cancelled" =>
             /\ ajobs'[j].analyzed_games = ajobs[j].analyzed_games
             /\ ajobs'[j].progress = ajobs[j].progress
             /\ ajobs'[j].status = ajobs[j].status
             /\ ajobs'[j].completed_at = ajobs[j].completed_at]_vars

\* ---------------------------------------------------------------- C36
\* the step changes a game, a Move row or an analysis job of user u
Touched(u) ==
    \/ \E g \in DOMAIN games :
          /\ games[g].user_id = u
          /\ (g \notin DOMAIN games' \/ games'[g] # games[g])
    \/ \E g \in DOMAIN games' :
          /\ games'[g].user_id = u
          /\ g \notin DOMAIN games
    \/ \E j \in 1..Len(ajobs) : ajobs[j].user_id = u /\ ajobs'[j] # ajobs[j]
    \/ \E r \in BagToSet(moves) \cup BagToSet(moves') :
          /\ CopiesIn(r, moves') # CopiesIn(r, moves)
          /\ \/ r.game_id \in DOMAIN games /\ games[r.game_id].user_id = u
             \/ r.game_id \in DOMAIN games' /\ games'[r.game_id].user_id = u

\* the step is a request of user u, or a step of a task that works for u
Acts(u) ==
    \/ reqs' = reqs - 1 /\ inflight' = inflight /\ resp'.u = u
    \/ \E j \in 1..(Len(ajobs) + 1) :
          /\ inflight' # inflight
          /\ \/ inflight' = Put(inflight, Request("cancel", u, j))
             \/ inflight' = Take(inflight, Request("cancel", u, j))
    \/ \E t \in BagToSet(running) : Steps(t) /\ t.u = u
    \/ /\ queue # <<>> /\ queue' = Tail(queue)
       /\ IF Head(queue).name = "analyze_game_task"
          THEN Head(queue).a \in DOMAIN games /\ games[Head(queue).a].user_id = u
          ELSE Head(queue).u = u

\* C36: a step changes the games, Move rows and jobs of a user only when it
\* is a request of that user or a step of a task working on that user's game
\* or job: a cancel resets and marks only the caller's games and job, a
\* coordinator update counts and updates only the owner's games and jobs, and
\* a request on a game or job of another user is answered 404 and changes
\* nothing.
C36_UsersAreIsolated ==
    [][/\ \A u \in Users : Touched(u) => Acts(u)
       /\ \A t \in BagToSet(running) :
             (Steps(t) /\ t.name = "analyze_game_task" /\ t.pc = "coord_write") =>
                /\ ajobs[t.todo[1]].user_id = t.u
                /\ t.nw.analyzed_games <= Cardinality({g \in 1..(next_id - 1) :
                                             g = t.a \/ (g \in DOMAIN games /\ games[g].user_id = t.u)})
       /\ (reqs' = reqs - 1 /\ inflight' = inflight) =>
             /\ resp'.code = NotFound =>
                   /\ games' = games /\ ajobs' = ajobs /\ moves' = moves /\ queue' = queue
             /\ (resp'.op = "status" /\ resp'.code = Ok) =>
                   ajobs[resp'.job].user_id = resp'.u]_vars

\* witness: user 1 has cancelled the batch while the game of user 2 was
\* in_progress, and that game is still in_progress
C36_CancelNextToForeignGame ==
    /\ resp = Resp("cancel", 1, Ok, 1)
    /\ ajobs[1].status = "cancelled"
    /\ 2 \in DOMAIN games /\ games[2].user_id = 2
    /\ games[2].analysis_state = "in_progress"

\* ---------------------------------------------------------------- C37
\* C37: when an engine analyse call of analyze_game fails, for the position
\* before or after a move of either colour, the analysis continues: the call
\* returns a result with one record per move, and the record of a move with a
\* missing evaluation has that evaluation missing, centipawn_loss null and
\* classification book.
C37_EngineFailureTolerated ==
    (an.pc = "done" /\ Len(an.pov) > 0) =>
       /\ an.result.kind = "ok"
       /\ Len(an.result.moves) = an.n
       /\ \A i \in 1..Len(an.result.moves) :
             LET m == an.result.moves[i] IN
             (an.pov[i][1] = None \/ an.pov[i][2] = None) =>
                /\ m.evaluation_before = None <=> an.pov[i][1] = None
                /\ m.evaluation_after = None <=> an.pov[i][2] = None
                /\ m.centipawn_loss = None
                /\ m.classification = "book"

\* ---------------------------------------------------------------- C38
\* C38: whenever an analysis job has status completed, its progress is 100
\* and its analyzed_games equals its total_games, also when the coordinator
\* steps of two executions for the same job interleave.
C38_CompletedMeansAllCounted ==
    \A j \in 1..Len(ajobs) :
       ajobs[j].status = "completed" =>
          /\ ajobs[j].progress = 100
          /\ ajobs[j].analyzed_games = ajobs[j].total_games

\* ---------------------------------------------------------------- C39
\* the steps of the stored analysis_state
StateSteps ==
    {<<"unanalyzed", "in_progress">>, <<"in_progress", "analyzed">>,
     <<"in_progress", "unanalyzed">>, <<"analyzed", "in_progress">>}

\* C39: the stored analysis_state of every game is unanalyzed, in_progress
\* or analyzed and changes only from unanalyzed to in_progress, from
\* in_progress to analyzed, from in_progress to unanalyzed and from analyzed
\* to in_progress; in particular never directly from unanalyzed to analyzed,
\* also when a cancel resets a game whose analysis task is running.
C39_StateStepsOnly ==
    /\ [](\A g \in DOMAIN games :
            games[g].analysis_state \in {"unanalyzed", "in_progress", "analyzed"})
    /\ [][\A g \in DOMAIN games \cap DOMAIN games' :
            \/ games'[g].analysis_state = games[g].analysis_state
            \/ <<games[g].analysis_state, games'[g].analysis_state>> \in StateSteps]_vars

\* ---------------------------------------------------------------- C40
\* C40: import_games_task inserts every fetched game whose provider id is
\* not among the user's own games and ends completed, also when another user
\* holds a Game row with the same provider id: the insert loop never fails
\* the job, and a completed import leaves the user with every fetched game.
C40_SharedGameImports ==
    [][\A t \in BagToSet(running) :
          (t.name = "import_games_task" /\ Steps(t)) =>
             /\ t.pc = "loop" => ijobs'[t.a].status # "failed"
             /\ (t.pc = "finish" /\ ijobs'[t.a].status = "completed") =>
                   \A i \in 1..Len(t.todo) :
                      \E g \in DOMAIN games' :
                         /\ games'[g].user_id = t.u
                         /\ games'[g].chess_com_id = t.todo[i]]_vars

====
